---- MODULE Spec2Model ----
(***************************************************************************)
(* Incremental scraping orchestration: the session control loop            *)
(* (backend/session_monitor.py), the scraping_sessions store it drives,    *)
(* the session-URL side file, and the real-time run monitor                *)
(* (backend/monitoring_service.py) with the stop endpoint                  *)
(* (backend/api_server.py).                                                *)
(***************************************************************************)
EXTENDS Integers, Sequences, FiniteSets, TLC

\* ------------------------------------------------------------------ bounds
\* Number of scraping sessions (rows of scraping_sessions) the model creates.
NumSessions == 2
\* Largest total_pages_target a created session may ask for.
MaxTarget == 25
\* Status requests of one monitored run the model follows.
MaxPolls == 4
\* Pages the provider's run crawls, and the records each page yields.
MaxPages == 3
RecordsPerPage == 3

\* ------------------------------------------------------- program constants
\* session_monitor.py:86  pages_per_iteration = 10
pages_per_iteration == 10
\* database.py:248  current_iteration INTEGER DEFAULT 1
DefaultIteration == 1
\* monitoring_service.py:256  limit: int = 100
DataLimit == 100

\* os.getenv('MAX_RECOVERY_ATTEMPTS', '3')
max_recovery_attempts == 3

\* _is_incomplete_run: pages_scraped < 5 and data_count < 20
MinPagesScraped == 5
MinDataCount == 20

\* Recoveries of one project the model follows.
MaxTriggers == 5

\* url_generator.py:68  offset = (next_page_number - 1) * 20
ItemsPerPage == 20

\* Target pages given to the URL generator.
MaxPageNumber == 3

Sessions == 1..NumSessions
\* The monitor processes that can exist: run_background_monitor.py may be
\* launched more than once; Spec starts one, SpecDual starts two.
AllMonitors == {1, 2}
\* total_pages values a caller of the start script passes.
Targets == {0, pages_per_iteration, 25, MaxTarget}

Min(a, b) == IF a <= b THEN a ELSE b

Max(a, b) == IF a >= b THEN a ELSE b

NoCall == [sid |-> 0]
NoDisp == [iter |-> 0, start |-> 0, end |-> 0]

VARIABLES
    sess,        \* scraping_sessions: sid -> [status, total, pages, iter]
    urls,        \* session_urls.json: set of session ids with an entry
    monitors,    \* the running control-loop processes
    mpc,         \* per monitor: "idle" | "loop" | "exec" | "mark"
    queue,       \* per monitor: rows returned by get_active_sessions, not yet processed
    cur,         \* per monitor: the executor call it is blocked in, or NoCall
    inflight,    \* per session: executor calls dispatched and not yet returned
    lastDisp,    \* per session: the last iteration handed to the executor
    lastResult,  \* per session: "none" | "pending" | "retrying" | "ok" | "failed"
    okRanges,    \* per session: page ranges of the iterations that succeeded
    atList       \* per monitor: sessions whose status was running at its last listing

    \* real-time run monitor (monitoring_service.py, api_server.py)
VARIABLES
    msess,       \* monitoring_sessions: id -> [status, total_records, total_pages, progress]
    apiSid,      \* id created (and returned) by the /api/monitor/start handler, 0 = none
    loopSid,     \* id created by monitor_run_realtime, 0 = none
    rpc,         \* monitor_run_realtime: "off" | "polling" | "retry_wait" | "poll_wait" | "done"
    poll_count,  \* its poll_count
    requests,    \* status requests it has sent to the provider
    run,         \* the provider's run: [status, pages_crawled, data_count]
    stored,      \* scraped_records: set of [id, session_id, page_number, data_hash]
    new_records, \* what the last fetch_and_store_data call returned
    offsets,     \* the offsets that call requested from the provider, in order
    limit        \* the limit argument of fetch_and_store_data

ctlVars == <<sess, urls, monitors, mpc, queue, cur, inflight, lastDisp, lastResult,
             okRanges, atList>>
rtVars == <<msess, apiSid, loopSid, rpc, poll_count, requests, run, stored,
            new_records, offsets, limit>>

    \* recovery detector (monitoring_service.py)
VARIABLES
    recovery_attempts,  \* self.recovery_attempts: project -> count, a dict
    triggers,           \* recoveries the periodic check started per project since its reset
    lastCall            \* the last call made on the detector and what it did

recVars == <<recovery_attempts, triggers, lastCall>>

    \* URL generator (url_generator.py)
VARIABLES
    url,        \* the URL given, a sequence of tokens
    target,     \* next_page_number
    info,       \* what detect_pattern(url) returned
    nextUrl,    \* what generate_next_url(url, target) returned
    nextPageUrl, \* what PaginationService.generate_next_page_url(url, target - 1) returned
    again,      \* what detect_pattern returned on the generated URL
    upc         \* "off" | "input" | "detected" | "generated" | "redetected"

urlVars == <<url, target, info, nextUrl, nextPageUrl, again, upc>>

\* Consolidation (data_consolidation_service.py): the arguments of one
\* merge_csv_data call, its local list of kept records and what it returns.
VARIABLES
    csv_files,      \* the list of CSV texts given to merge_csv_data
    deduplicate,    \* the deduplicate argument
    all_records,    \* merge_csv_data's local all_records when it returns
    merged,         \* (merged_csv, total_records, deduplicated_count)
    cpc             \* "off", "given" or "merged"

mrgVars == <<csv_files, deduplicate, all_records, merged, cpc>>

\* Consolidation helpers: one identify_unique_records call and one
\* compare_pages call, each with its arguments and what it returned.
VARIABLES
    input_records,  \* identify_unique_records: the records given
    unique_key,     \* its unique_key argument
    unique,         \* what it returned: [unique_records, duplicates]
    scraped_pages,  \* compare_pages: scraped_pages
    target_pages,   \* compare_pages: target_pages
    compared,       \* what it returned
    hpc             \* "off", "given" or "done"

hlpVars == <<input_records, unique_key, unique, scraped_pages, target_pages, compared, hpc>>

    \* session_urls.json and the processes that use it
    \* (start_incremental_scraping.save_session_url, SessionMonitor._get_original_url)
VARIABLES
    regFile,     \* the file: [kind, sessions, size], kind "none" | "json" | "invalid"
    regUrl,      \* per session: the original_url its start script was given
    regPc,       \* per save_session_url call: "idle" | "loaded" | "open" | "done" | "failed"
    regLocal,    \* per call: its local dict sessions
    regGot       \* per session: what _get_original_url last returned for it

regVars == <<regFile, regUrl, regPc, regLocal, regGot>>
notCtl == <<rtVars, recVars, urlVars, mrgVars, hlpVars, regVars>>
notRt == <<ctlVars, recVars, urlVars, mrgVars, hlpVars, regVars>>
notRec == <<ctlVars, rtVars, urlVars, mrgVars, hlpVars, regVars>>
notUrl == <<ctlVars, rtVars, recVars, mrgVars, hlpVars, regVars>>
notMrg == <<ctlVars, rtVars, recVars, urlVars, hlpVars, regVars>>
notHlp == <<ctlVars, rtVars, recVars, urlVars, mrgVars, regVars>>
notReg == <<ctlVars, rtVars, recVars, urlVars, mrgVars, hlpVars>>
vars == <<ctlVars, rtVars, recVars, urlVars, mrgVars, hlpVars, regVars>>

\* ------------------------------------------------------------ session store
NoRow == [status |-> "none", total |-> 0, pages |-> 0, iter |-> 0]

\* create_session: a new row, running, nothing completed, schema defaults.
NewRow(t) ==
    [status |-> "running", total |-> t, pages |-> 0, iter |-> DefaultIteration]

\* get_active_sessions: SELECT ... FROM scraping_sessions WHERE status = 'running'
IsActiveAll(row) == row.status # "none"
IsActiveTypo(row) == row.status = "active"
IsActive(row) == row.status = "running"

RECURSIVE RowsFrom(_, _)
RowsFrom(store, s) ==
    IF s > NumSessions THEN <<>>
    ELSE (IF IsActive(store[s])
            THEN << [session_id |-> s,
                     total_pages_target |-> store[s].total,
                     pages_completed |-> store[s].pages,
                     current_iteration |-> store[s].iter] >>
            ELSE <<>>) \o RowsFrom(store, s + 1)

get_active_sessions(store) == RowsFrom(store, 1)

\* update_session_progress(session_id, pages_completed, status): the store
\* advances pages_completed and current_iteration together and writes the
\* status it is handed.
update_no_iteration(store, s, pages, status) ==
    [store EXCEPT ![s].pages = pages, ![s].status = status]
update_session_progress(store, s, pages, status) ==
    [store EXCEPT ![s].pages = pages, ![s].iter = @ + 1, ![s].status = status]

\* mark_session_complete(session_id)
mark_session_complete(store, s) == [store EXCEPT ![s].status = "completed"]

\* ----------------------------------------------------------- process_session
\* current_iteration = session['current_iteration'] or 1
IterationOffByOne(ci) == IF ci = 0 THEN 1 ELSE ci + 1
IterationNumber(ci) == IF ci = 0 THEN 1 ELSE ci

\* if pages_completed >= total_pages
IsCompleteEager(pages, total) == pages + pages_per_iteration >= total
IsCompleteStrict(pages, total) == pages > total
IsComplete(pages, total) == pages >= total

\* start_page = pages_completed + 1
StartPageOffByOne(pages) == pages
StartPageSkip(pages) == pages + 2
StartPage(pages) == pages + 1

\* end_page = min(start_page + pages_per_iteration - 1, total_pages)
EndPageUnclamped(start, total) == start + pages_per_iteration - 1
EndPage(start, total) == Min(start + pages_per_iteration - 1, total)

\* execute_iteration on success reports the pages completed so far: the end of
\* the range it was given.
ExecutorPages(call) == call.end

\* The call to execute_iteration is synchronous: the loop waits for it.
AfterDispatchAsync == "loop"
AfterDispatch == "exec"

\* else-branch of "if iter_res['success']" and the except clause: nothing is written.
OnFailureAdvance(store, call) == [store EXCEPT ![call.sid].pages = call.end]
OnFailure(store, call) == store

\* ---------------------------------------------------------------- initial
CtlInit(ms) ==
    /\ sess = [s \in Sessions |-> NoRow]
    /\ urls = {}
    /\ monitors = ms
    /\ mpc = [m \in AllMonitors |-> "idle"]
    /\ queue = [m \in AllMonitors |-> <<>>]
    /\ cur = [m \in AllMonitors |-> NoCall]
    /\ inflight = [s \in Sessions |-> 0]
    /\ lastDisp = [s \in Sessions |-> NoDisp]
    /\ lastResult = [s \in Sessions |-> "none"]
    /\ okRanges = [s \in Sessions |-> <<>>]
    /\ atList = [m \in AllMonitors |-> {}]

monVars == <<mpc, queue, cur, inflight, lastDisp, lastResult, okRanges, atList>>

\* -------------------------------------------------- real-time run monitor
MonIds == 1..2
RunStatuses == {"running", "succeeded", "failed", "cancelled"}

NoMon == [status |-> "none", total_records |-> 0, total_pages |-> 0, progress |-> 0]

\* create_monitoring_session: INSERT ... VALUES (?, ?, ?, 'active', ...); lastrowid
NextMonId(tbl) == Cardinality({i \in MonIds : tbl[i].status # "none"}) + 1
create_monitoring_session(tbl) ==
    [tbl EXCEPT ![NextMonId(tbl)] = [NoMon EXCEPT !.status = "active"]]

\* update_monitoring_session: UPDATE monitoring_sessions SET <the fields given> WHERE id = ?
update_monitoring_session(tbl, id, upd) ==
    IF id \notin MonIds \/ tbl[id].status = "none" THEN tbl
    ELSE [tbl EXCEPT ![id] =
            [f \in DOMAIN tbl[id] |-> IF f \in DOMAIN upd THEN upd[f] ELSE tbl[id][f]]]

\* _calculate_progress: min(int(pages_crawled * 10), 99) if pages_crawled > 0 else 0
calculate_progress(pages) == IF pages > 0 THEN Min(pages * 10, 99) ELSE 0

\* get_run_status, on a response: the provider's fields
get_run_status(r) ==
    [status |-> r.status, data_count |-> r.data_count,
     pages_crawled |-> r.pages_crawled,
     progress_percentage |-> calculate_progress(r.pages_crawled)]

IsTerminalNoCancelled(st) == st \in {"succeeded", "failed"}

\* if current_status in ['succeeded', 'failed', 'cancelled']
IsTerminal(st) == st \in {"succeeded", "failed", "cancelled"}

\* The polling loop reads the provider only; the stored session status is never read.
LoopContinues(tbl, id) == TRUE

\* poll_count += 1, and the count of status requests: followed up to MaxPolls
Count(n) == IF n < MaxPolls THEN n + 1 ELSE n

TransportFailureMarksFailed(tbl, id) == [tbl EXCEPT ![id].status = "failed"]

\* if not status_data: logger.warning(...): the stored session is not written
OnTransportFailure(tbl, id) == tbl

AfterTransportFailureBreak == "done"

\* if not status_data: ... time.sleep(2); continue
AfterTransportFailure == "retry_wait"

\* the column names, in the order sorted() and sort_keys=True put them
Alphabet == <<"name", "url">>

Rank(k) == CHOOSE i \in 1..Len(Alphabet) : Alphabet[i] = k

\* The data of the run at the provider: row r of total_count rows. Each page
\* the run crawls lists again the last Overlap items of the page before, and
\* the provider writes the keys of a row in either order.
Overlap == 1

\* the limit arguments given to fetch_and_store_data are 2..MaxLimit
MaxLimit == 4

Item(r) == r - Overlap * ((r - 1) \div RecordsPerPage)

ProviderRow(r) ==
    IF r % 2 = 1
    THEN << <<"name", Item(r)>>, <<"url", Item(r)>> >>
    ELSE << <<"url", Item(r)>>, <<"name", Item(r)>> >>

\* json.dumps(record, sort_keys=True) and its md5 digest, modelled by the JSON
\* text (the key: value pairs in the order of their keys)
data_hash(record) ==
    [i \in 1..Len(record) |->
        CHOOSE e \in {record[j] : j \in 1..Len(record)} :
            Cardinality({j \in 1..Len(record) : Rank(record[j][1]) < Rank(e[1])})
                = i - 1]

\* an index without the UNIQUE constraint never raises IntegrityError
NeverIntegrityError(index, key) == FALSE

\* UNIQUE(run_token, page_number, data_hash), for the one run that is
\* followed: the INSERT of a key that is in the index raises IntegrityError
IntegrityError(index, key) == key \in index

\* store_scraped_records(session_id, project_id, run_token, records,
\* page_number): one INSERT per record in the order given, a record that
\* raises IntegrityError (against the table or against a record inserted
\* before it by the same call) is skipped; returns the table and
\* records_stored. records are the provider's rows first..last.
store_scraped_records(tbl, sid, page_number, first, last) ==
    LET records == {<<r, data_hash(ProviderRow(r))>> : r \in first..last}
        index == {<<e.page_number, e.data_hash>> : e \in tbl}
        inserted ==
            {rec \in records :
                /\ ~IntegrityError(index, <<page_number, rec[2]>>)
                /\ \A before \in records :
                       before[1] < rec[1] =>
                           ~IntegrityError({<<page_number, before[2]>>},
                                           <<page_number, rec[2]>>)}
    IN  [tbl |->
            tbl \cup {[id |-> Cardinality(tbl)
                                + Cardinality({q \in inserted : q[1] <= rec[1]}),
                       session_id |-> sid, page_number |-> page_number,
                       data_hash |-> rec[2]] : rec \in inserted},
         records_stored |-> Cardinality(inserted)]

\* a failure of a later chunk that discards what the earlier chunks stored
OnLaterFailureDiscard(stored_count, later) == later

\* stored_count += self.fetch_and_store_data(..., offset + limit, limit)
AddLater(stored_count, later) == stored_count + later

\* fetch_and_store_data(session_id, project_id, run_token, offset, limit):
\* one chunk, then the next by a recursive call while offset + limit <
\* total_count. ok is the number of data requests answered before one raises
\* (the except returns 0). Returns the table, the count of newly stored
\* records and the offsets requested.
RECURSIVE fetch_and_store_data(_, _, _, _, _, _)
fetch_and_store_data(tbl, sid, offset, lim, total, ok) ==
    IF ok = 0
    THEN [tbl |-> tbl, stored_count |-> 0, offsets |-> <<offset>>]
    ELSE IF total <= offset
    THEN [tbl |-> tbl, stored_count |-> 0, offsets |-> <<offset>>]
    ELSE LET page_number == (offset \div lim) + 1
             chunk == store_scraped_records(tbl, sid, page_number, offset + 1,
                                            Min(offset + lim, total))
         IN  IF offset + lim < total
             THEN LET later == fetch_and_store_data(chunk.tbl, sid,
                                   offset + lim, lim, total, ok - 1)
                  IN  [tbl |-> later.tbl,
                       stored_count |-> AddLater(chunk.records_stored,
                                                 later.stored_count),
                       offsets |-> <<offset>> \o later.offsets]
             ELSE [tbl |-> chunk.tbl, stored_count |-> chunk.records_stored,
                   offsets |-> <<offset>>]

\* the number of data requests a fetch of total rows makes when none fails
NumChunks(total) == IF total = 0 THEN 1 ELSE (total + limit - 1) \div limit

RtInit ==
    /\ msess = [i \in MonIds |-> NoMon]
    /\ apiSid = 0
    /\ loopSid = 0
    /\ rpc = "off"
    /\ poll_count = 0
    /\ requests = 0
    /\ run = [status |-> "running", pages_crawled |-> 0, data_count |-> 0]
    /\ stored = {}
    /\ new_records = 0
    /\ offsets = <<>>
    /\ limit = DataLimit

\* ------------------------------------------------------- recovery detector
Projects == {1, 2}

\* the statuses recovery_service.check_project_status reports
ProjectStatuses == {"stuck", "cancelled", "completed", "running", "failed", "unknown"}

NoProjectData == [has |-> FALSE, pages_scraped |-> 0, data_count |-> 0]

\* project_data as check_all_projects passes it; a last_run without the two
\* keys reads as 0 and 0 (last_run.get(..., 0))
ProjectData ==
    {NoProjectData} \cup
    [has : {TRUE},
     pages_scraped : {0, MinPagesScraped - 1, MinPagesScraped},
     data_count : {MinDataCount - 1, MinDataCount}]

\* project_data is read only for the status 'completed' (the or / and of
\* check_single_project short-circuit)
DataRead(status) == IF status = "completed" THEN ProjectData ELSE {NoProjectData}

NoCallYet == [op |-> "none", project |-> 0, status |-> "none", data |-> NoProjectData,
              handled |-> FALSE, triggered |-> FALSE]

IsIncompleteRunEither(project_data) ==
    project_data.has /\
    (project_data.pages_scraped < MinPagesScraped \/ project_data.data_count < MinDataCount)

\* _is_incomplete_run
is_incomplete_run(project_data) ==
    IF ~project_data.has THEN FALSE
    ELSE project_data.pages_scraped < MinPagesScraped /\ project_data.data_count < MinDataCount

\* check_single_project: if status in ['stuck', 'cancelled'] or (status ==
\* 'completed' and self._is_incomplete_run(project_data))
StopDetected(status, project_data) ==
    \/ status \in {"stuck", "cancelled"}
    \/ status = "completed" /\ is_incomplete_run(project_data)

AtCapStrict(attempts, p) ==
    p \in DOMAIN attempts /\ attempts[p] > max_recovery_attempts

\* _handle_stop_detected: project_token in self.recovery_attempts and
\* attempt_count >= self.max_recovery_attempts
AtCap(attempts, p) ==
    p \in DOMAIN attempts /\ attempts[p] >= max_recovery_attempts

\* self.recovery_attempts.get(project_token, 0)
GetAttempts(attempts, p) == IF p \in DOMAIN attempts THEN attempts[p] ELSE 0

\* self.recovery_attempts[project_token] = value
SetAttempts(attempts, p, value) ==
    [q \in DOMAIN attempts \cup {p} |-> IF q = p THEN value ELSE attempts[q]]

\* trigger_recovery: the counter is incremented only if the result reports success
trigger_recovery(attempts, p, ok) ==
    IF ok THEN SetAttempts(attempts, p, GetAttempts(attempts, p) + 1) ELSE attempts

\* _handle_stop_detected
handle_stop_detected(attempts, p, ok) ==
    IF AtCap(attempts, p) THEN attempts
    ELSE trigger_recovery(IF p \in DOMAIN attempts THEN attempts
                          ELSE SetAttempts(attempts, p, 0), p, ok)

\* reset_recovery_counter
reset_recovery_counter(attempts, p) ==
    [q \in DOMAIN attempts \ {p} |-> attempts[q]]

RecInit ==
    /\ recovery_attempts = [q \in {} |-> 0]
    /\ triggers = [p \in Projects |-> 0]
    /\ lastCall = NoCallYet

\* ----------------------------------------------------------- URL generator
\* A URL is a sequence of tokens: a word (separators included) or a run of
\* digits with its value n and its number z of leading zeros.
W(s) == [w |-> s]
D(n, z) == [n |-> n, z |-> z]
IsNum(tok) == "n" \in DOMAIN tok
Separators == {W("?"), W("&"), W("/"), W("-"), W("=")}
\* \w+
IsKey(tok) == tok \notin Separators

\* url.lower()
LowerWord(s) == IF s = "Page" THEN "page" ELSE s
Lower(u) == [i \in 1..Len(u) |-> IF IsNum(u[i]) THEN u[i] ELSE W(LowerWord(u[i].w))]

\* PATTERNS, in the order of the dict
PatternNames == <<"query_page", "query_p", "query_offset", "query_start",
                  "path_page", "path_p", "path_products", "query_custom">>

\* r'[?&]key=(\d+)' at position i
QueryAt(u, i, key) ==
    /\ i + 3 <= Len(u)
    /\ u[i] \in {W("?"), W("&")}
    /\ u[i + 1] = W(key)
    /\ u[i + 2] = W("=")
    /\ IsNum(u[i + 3])

\* r'/page[/-](\d+)' at position i
PathPageAt(u, i) ==
    /\ i + 3 <= Len(u)
    /\ u[i] = W("/")
    /\ u[i + 1] = W("page")
    /\ u[i + 2] \in {W("/"), W("-")}
    /\ IsNum(u[i + 3])

\* r'/p/(\d+)' at position i
PathPAt(u, i) ==
    /\ i + 3 <= Len(u)
    /\ u[i] = W("/")
    /\ u[i + 1] = W("p")
    /\ u[i + 2] = W("/")
    /\ IsNum(u[i + 3])

\* r'/products/page[/-](\d+)' at position i
PathProductsAt(u, i) ==
    /\ i + 5 <= Len(u)
    /\ u[i] = W("/")
    /\ u[i + 1] = W("products")
    /\ PathPageAt(u, i + 2)

\* r'[?&](\w+)=(\d+)' at position i
CustomAt(u, i) ==
    /\ i + 3 <= Len(u)
    /\ u[i] \in {W("?"), W("&")}
    /\ IsKey(u[i + 1])
    /\ u[i + 2] = W("=")
    /\ IsNum(u[i + 3])

MatchAt(name, u, i) ==
    CASE name = "query_page" -> QueryAt(u, i, "page")
      [] name = "query_p" -> QueryAt(u, i, "p")
      [] name = "query_offset" -> QueryAt(u, i, "offset")
      [] name = "query_start" -> QueryAt(u, i, "start")
      [] name = "path_page" -> PathPageAt(u, i)
      [] name = "path_p" -> PathPAt(u, i)
      [] name = "path_products" -> PathProductsAt(u, i)
      [] OTHER -> CustomAt(u, i)

\* re.search: the leftmost match, 0 if there is none
Search(name, u) ==
    LET hits == {i \in 1..Len(u) : MatchAt(name, u, i)}
    IN IF hits = {} THEN 0 ELSE CHOOSE i \in hits : \A j \in hits : i <= j

\* match.group(1)
Group1(name, u, i) ==
    CASE name = "path_products" -> u[i + 5]
      [] name = "query_custom" -> u[i + 1]
      [] OTHER -> u[i + 3]

NoInfo == [raised |-> FALSE, pattern_type |-> "none", current_page |-> 0, key |-> W("")]

\* detect_pattern: the first pattern of PATTERNS that matches url.lower();
\* int(match.group(1)) raises ValueError on a group that is not digits
detect_pattern(u) ==
    LET low == Lower(u)
        found == {k \in 1..Len(PatternNames) : Search(PatternNames[k], low) # 0}
    IN IF found = {}
         THEN [raised |-> FALSE, pattern_type |-> "unknown", current_page |-> 1, key |-> W("")]
         ELSE LET k == CHOOSE k \in found : \A j \in found : k <= j
                  name == PatternNames[k]
                  g == Group1(name, low, Search(name, low))
              IN IF IsNum(g)
                   THEN [raised |-> FALSE, pattern_type |-> name, current_page |-> g.n, key |-> g]
                   ELSE [raised |-> TRUE, pattern_type |-> name, current_page |-> 0, key |-> g]

\* re.sub(r'([?&]key=)\d+', rf'\g<1>{value}', url): every match, case kept
SubQuery(u, keytok, value) ==
    [j \in 1..Len(u) |->
        IF /\ j >= 4
           /\ u[j - 3] \in {W("?"), W("&")} /\ u[j - 2] = keytok /\ u[j - 1] = W("=")
           /\ IsNum(u[j])
          THEN D(value, 0) ELSE u[j]]

\* re.sub(r'/page[/-]\d+', f'/page-{value}', url)
SubPathPage(u, value) ==
    [j \in 1..Len(u) |->
        IF j >= 4 /\ PathPageAt(u, j - 3) THEN D(value, 0)
        ELSE IF j >= 3 /\ PathPageAt(u, j - 2) THEN W("-")
        ELSE u[j]]

\* re.sub(r'/p/\d+', f'/p/{value}', url)
SubPathP(u, value) ==
    [j \in 1..Len(u) |-> IF j >= 4 /\ PathPAt(u, j - 3) THEN D(value, 0) ELSE u[j]]

\* separator = '&' if '?' in url else '?'; f"{url}{separator}page={value}"
AppendPage(u, value) ==
    u \o <<IF \E i \in 1..Len(u) : u[i] = W("?") THEN W("&") ELSE W("?"),
           W("page"), W("="), D(value, 0)>>

\* the if / elif chain of generate_next_url: the first branch whose test
\* ('name' in pattern_type, a substring test) is true
Branch(pattern_type) ==
    CASE pattern_type = "query_page" -> "query_page"
      [] pattern_type = "query_p" -> "query_p"
      [] pattern_type = "query_offset" -> "query_offset"
      [] pattern_type = "query_start" -> "query_start"
      [] pattern_type = "path_page" -> "path_page"
      [] pattern_type \in {"path_p", "path_products"} -> "path_p"
      [] pattern_type = "query_custom" -> "query_custom"
      [] OTHER -> "else"

NoUrlResult == [raised |-> FALSE, url |-> <<>>]

\* generate_next_url(url, next_page_number): detect_pattern is called before
\* the try, what it raises leaves the function
generate_next_url(u, next_page_number) ==
    LET pattern_info == detect_pattern(u)
        b == Branch(pattern_info.pattern_type)
        offset == (next_page_number - 1) * ItemsPerPage
    IN IF pattern_info.raised THEN [raised |-> TRUE, url |-> <<>>]
       ELSE [raised |-> FALSE, url |->
              CASE b = "query_page" -> SubQuery(u, W("page"), next_page_number)
                [] b = "query_p" -> SubQuery(u, W("p"), next_page_number)
                [] b = "query_offset" -> SubQuery(u, W("offset"), offset)
                [] b = "query_start" -> SubQuery(u, W("start"), offset)
                [] b = "path_page" -> SubPathPage(u, next_page_number)
                [] b = "path_p" -> SubPathP(u, next_page_number)
                [] b = "query_custom" -> SubQuery(u, pattern_info.key, next_page_number)
                [] OTHER ->
                     IF SubQuery(u, W("page"), next_page_number) # u
                       THEN SubQuery(u, W("page"), next_page_number)
                     ELSE IF SubQuery(u, W("p"), next_page_number) # u
                       THEN SubQuery(u, W("p"), next_page_number)
                     ELSE AppendPage(u, next_page_number)]

\* PaginationService.generate_next_page_url, its patterns in the order of the list
PagePatterns == <<"query_page", "query_p", "path_page", "query_offset">>

\* re.sub(r'(/page[/-])\d+', rf'\g<1>{value}', base_url)
SubPathKeep(u, value) ==
    [j \in 1..Len(u) |-> IF j >= 4 /\ PathPageAt(u, j - 3) THEN D(value, 0) ELSE u[j]]

\* generate_next_page_url(base_url, current_page): the first pattern that
\* re.search finds in base_url (no lower-casing) is substituted
generate_next_page_url(u, current_page) ==
    LET next_page == current_page + 1
        found == {k \in 1..Len(PagePatterns) : Search(PagePatterns[k], u) # 0}
    IN IF found = {} THEN AppendPage(u, next_page)
       ELSE LET style == PagePatterns[CHOOSE k \in found : \A j \in found : k <= j]
            IN CASE style = "query_page" -> SubQuery(u, W("page"), next_page)
                 [] style = "query_p" -> SubQuery(u, W("p"), next_page)
                 [] style = "path_page" -> SubPathKeep(u, next_page)
                 [] OTHER -> SubQuery(u, W("offset"), current_page * ItemsPerPage)

\* the URLs given to the generator
Pair(k, v) == <<k, W("="), v>>
KeyTokens == {W("page"), W("Page"), W("p"), W("offset"), W("start"), W("id"), D(7, 0)}
ValueTokens == {D(2, 0), D(2, 1), W("shoes")}
Paths ==
    { <<W("/"), W("items")>>,
      <<W("/"), W("page"), W("/"), D(3, 0)>>,
      <<W("/"), W("page"), W("-"), D(3, 0)>>,
      <<W("/"), W("p"), W("/"), D(3, 0)>>,
      <<W("/"), W("products"), W("/"), W("page"), W("-"), D(3, 0)>> }
Queries ==
    {<<>>}
    \cup {<<W("?")>> \o Pair(k, v) : k \in KeyTokens, v \in ValueTokens}
    \cup {<<W("?")>> \o Pair(k1, v1) \o <<W("&")>> \o Pair(k2, v2) :
              k1 \in {W("id"), W("offset")}, v1 \in ValueTokens,
              k2 \in KeyTokens, v2 \in ValueTokens}
Urls == {<<W("x.com")>> \o path \o query : path \in Paths, query \in Queries}

UrlOff ==
    /\ url = <<>>
    /\ target = 0
    /\ info = NoInfo
    /\ nextUrl = NoUrlResult
    /\ nextPageUrl = <<>>
    /\ again = NoInfo
    /\ upc = "off"

UrlInit ==
    /\ url \in Urls
    /\ target \in 1..MaxPageNumber
    /\ info = NoInfo
    /\ nextUrl = NoUrlResult
    /\ nextPageUrl = <<>>
    /\ again = NoInfo
    /\ upc = "input"

\* ------------------------------------------------ consolidation: operators
\* A CSV text is modelled by its lines after csv_text.strip().split('\n'): the
\* header line and the data lines, each a sequence of fields. NotText is an
\* argument that is not a string (None): csv_text.strip() raises on it.
MaxBatches == 2

NoneValue == "<None>"

NoneKey == "<restkey None>"

Csv(header, rows) == [text |-> TRUE, header |-> header, rows |-> rows]

NotText == [text |-> FALSE, header |-> <<>>, rows |-> <<>>]

EmptyText == Csv(<<>>, <<>>)

\* A dict is the sequence of its entries in insertion order. DictReader puts
\* the fields beyond the header under the key None (restkey), as a list.
Entry(k, v) == [k |-> k, v |-> v, rest |-> <<>>]

RestEntry(fields) == [k |-> NoneKey, v |-> NoneValue, rest |-> fields]

Entries(record) == {record[i] : i \in 1..Len(record)}

\* csv.DictReader: one dict per data line; a missing field is None (restval)
DictRow(fieldnames, row) ==
    LET named == [i \in 1..Len(fieldnames) |->
                    Entry(fieldnames[i],
                          IF i <= Len(row) THEN row[i] ELSE NoneValue)]
    IN  IF Len(row) > Len(fieldnames)
        THEN Append(named,
                    RestEntry(SubSeq(row, Len(fieldnames) + 1, Len(row))))
        ELSE named

\* parse_csv_to_records(csv_text) -> (headers, records); ([], []) on exception
parse_csv_to_records(csv_text) ==
    IF ~csv_text.text
    THEN [headers |-> <<>>, records |-> <<>>]
    ELSE [headers |-> csv_text.header,
          records |-> [i \in 1..Len(csv_text.rows) |->
                          DictRow(csv_text.header, csv_text.rows[i])]]

HasNoneKey(record) == \E e \in Entries(record) : e.k = NoneKey

\* json.dumps(record, sort_keys=True): the entries in the order of their keys
SortKeys(record) ==
    [i \in 1..Len(record) |->
        CHOOSE e \in Entries(record) :
            Cardinality({f \in Entries(record) : Rank(f.k) < Rank(e.k)}) = i - 1]

\* json.dumps(record) without sort_keys: the entries in insertion order
HashInsertionOrder(record) == record

\* generate_record_hash(record): the md5 digest of the JSON text, modelled by
\* the JSON text itself (no two texts of the model share a digest). Sorting a
\* None key against strings raises TypeError, and the except branch dumps the
\* record without sort_keys.
generate_record_hash(record) ==
    IF HasNoneKey(record) THEN record ELSE SortKeys(record)

\* merge_csv_data's locals while it reads the files
NoAcc ==
    [headers_set |-> FALSE, headers |-> <<>>, all_records |-> <<>>,
     record_hashes |-> {}, duplicates_found |-> 0]

\* a duplicate that is counted and then appended as well (no continue)
OnDuplicateKeep(acc, record) ==
    [acc EXCEPT !.duplicates_found = @ + 1, !.all_records = Append(@, record)]

\* record_hash in record_hashes: duplicates_found += 1; continue
OnDuplicate(acc, record) == [acc EXCEPT !.duplicates_found = @ + 1]

\* the body of "for record in records"
AddRecord(acc, record, dedup) ==
    IF dedup /\ generate_record_hash(record) \in acc.record_hashes
    THEN OnDuplicate(acc, record)
    ELSE [acc EXCEPT
            !.record_hashes =
                IF dedup THEN @ \cup {generate_record_hash(record)} ELSE @,
            !.all_records = Append(@, record)]

RECURSIVE AddRecords(_, _, _, _)
AddRecords(acc, records, i, dedup) ==
    IF i > Len(records)
    THEN acc
    ELSE AddRecords(AddRecord(acc, records[i], dedup), records, i + 1, dedup)

\* the body of "for csv_text in csv_files": the first file's headers are used
AddFile(acc, csv_text, dedup) ==
    LET parsed == parse_csv_to_records(csv_text)
        withHeaders ==
            IF acc.headers_set
            THEN acc
            ELSE [acc EXCEPT !.headers_set = TRUE, !.headers = parsed.headers]
    IN  AddRecords(withHeaders, parsed.records, 1, dedup)

RECURSIVE AddFiles(_, _, _, _)
AddFiles(acc, files, i, dedup) ==
    IF i > Len(files)
    THEN acc
    ELSE AddFiles(AddFile(acc, files[i], dedup), files, i + 1, dedup)

\* csv.DictWriter(fieldnames=headers) raises ValueError on a dict with a key
\* that is not a field name (extrasaction='raise')
FieldNamesOk(headers, record) ==
    \A e \in Entries(record) : \E j \in 1..Len(headers) : headers[j] = e.k

\* DictWriter.writerow: rowdict.get(key, ''), and None is written as ''
WriteRow(headers, record) ==
    [j \in 1..Len(headers) |->
        IF \E e \in Entries(record) : e.k = headers[j] /\ e.v # NoneValue
        THEN (CHOOSE e \in Entries(record) : e.k = headers[j]).v
        ELSE ""]

\* return "", 0, 0
EmptyResult ==
    [merged_csv |-> EmptyText, total_records |-> 0, deduplicated_count |-> 0]

\* merge_csv_data(csv_files, deduplicate) ->
\* (merged_csv, total_records, deduplicated_count), with the local all_records
merge_csv_data(files, dedup) ==
    LET acc == AddFiles(NoAcc, files, 1, dedup)
        kept == acc.all_records
    IN  [all_records |-> kept,
         result |->
            IF acc.headers = <<>>
            THEN EmptyResult
            ELSE IF \E i \in 1..Len(kept) : ~FieldNamesOk(acc.headers, kept[i])
            THEN EmptyResult
            ELSE [merged_csv |->
                      Csv(acc.headers,
                          [i \in 1..Len(kept) |-> WriteRow(acc.headers, kept[i])]),
                  total_records |-> Len(kept),
                  deduplicated_count |-> acc.duplicates_found]]

\* ---- the CSV texts given to merge_csv_data
Headers == {<<"name">>, <<"name", "url">>, <<"url", "name">>}

Content1 == [name |-> "1", url |-> "2"]

Content2 == [name |-> "1", url |-> ""]

RowOf(header, content) == [i \in 1..Len(header) |-> content[header[i]]]

Short(row) == SubSeq(row, 1, Len(row) - 1)

Long(row) == Append(row, "9")

RowLists(header) ==
    LET r1 == RowOf(header, Content1)
        r2 == RowOf(header, Content2)
    IN  {<<>>, <<r1>>, <<r1, r1>>, <<r1, r2>>, <<r1, Long(r2)>>}
            \cup (IF Len(header) > 1 THEN {<<r2, Short(r1)>>} ELSE {})

Batches ==
    UNION {{Csv(header, rows) : rows \in RowLists(header)} : header \in Headers}
        \cup {NotText, EmptyText}

FileLists == UNION {[1..n -> Batches] : n \in 0..MaxBatches}

MrgOff ==
    /\ csv_files = <<>>
    /\ deduplicate = TRUE
    /\ all_records = <<>>
    /\ merged = EmptyResult
    /\ cpc = "off"

MrgInit ==
    /\ csv_files \in FileLists
    /\ deduplicate \in BOOLEAN
    /\ all_records = <<>>
    /\ merged = EmptyResult
    /\ cpc = "given"

\* ---- identify_unique_records and compare_pages
MaxRecords == 3

MaxCompare == 10

NoUniqueKey == "<None>"

\* a record deduplicated by the hash of all its fields
KeyOfHashOnly(record, key) == [hash |-> generate_record_hash(record)]

\* the key of a record: record[unique_key] when a unique_key is given and the
\* record has it, else generate_record_hash(record). Both kinds go into the
\* one set seen; a column value is taken never to equal a digest.
KeyOf(record, key) ==
    IF key # NoUniqueKey /\ \E e \in Entries(record) : e.k = key
    THEN [value |-> (CHOOSE e \in Entries(record) : e.k = key).v]
    ELSE [hash |-> generate_record_hash(record)]

RECURSIVE UniqueFrom(_, _, _, _)
UniqueFrom(acc, recs, i, key) ==
    IF i > Len(recs)
    THEN acc
    ELSE LET k == KeyOf(recs[i], key)
         IN  IF k \notin acc.seen
             THEN UniqueFrom([acc EXCEPT !.seen = @ \cup {k},
                                         !.unique_records = Append(@, recs[i])],
                             recs, i + 1, key)
             ELSE UniqueFrom([acc EXCEPT !.duplicates = @ + 1], recs, i + 1, key)

\* identify_unique_records(records, unique_key) -> (unique_records, duplicates)
identify_unique_records(recs, key) ==
    LET acc == UniqueFrom([seen |-> {}, unique_records |-> <<>>, duplicates |-> 0],
                          recs, 1, key)
    IN  [unique_records |-> acc.unique_records, duplicates |-> acc.duplicates]

NoUnique == [unique_records |-> <<>>, duplicates |-> 0]

\* the records given: with the column or without it, the columns in either
\* order, a field that is None
RecordPool ==
    {<<Entry("name", "1"), Entry("url", "a")>>,
     <<Entry("name", "2"), Entry("url", "a")>>,
     <<Entry("url", "b"), Entry("name", "1")>>,
     <<Entry("url", "a"), Entry("name", "1")>>,
     <<Entry("name", "1")>>,
     <<Entry("name", "1"), Entry("url", NoneValue)>>}

RecordLists == UNION {[1..n -> RecordPool] : n \in 0..MaxRecords}

\* a percentage of num / den rounded down to one decimal, in tenths
Truncate1(num, den) == (num * 1000) \div den

\* round(num / den * 100, 1), in tenths of a percent: the nearest tenth, a tie
\* going to the even one
Round1(num, den) ==
    LET q == (num * 1000) \div den
        r == (num * 1000) % den
    IN  IF 2 * r < den THEN q
        ELSE IF 2 * r > den THEN q + 1
        ELSE IF q % 2 = 0 THEN q ELSE q + 1

\* compare_pages(scraped_pages, target_pages); percentage in tenths
compare_pages(scraped, target_) ==
    [is_complete |-> scraped >= target_,
     pages_remaining |-> Max(0, target_ - scraped),
     pages_completed |-> scraped,
     total_target |-> target_,
     percentage |-> IF target_ > 0 THEN Round1(scraped, target_) ELSE 0]

NoCompared ==
    [is_complete |-> FALSE, pages_remaining |-> 0, pages_completed |-> 0,
     total_target |-> 0, percentage |-> 0]

HlpOff ==
    /\ input_records = <<>>
    /\ unique_key = NoUniqueKey
    /\ unique = NoUnique
    /\ scraped_pages = 0
    /\ target_pages = 0
    /\ compared = NoCompared
    /\ hpc = "off"

UniqueInit ==
    /\ input_records \in RecordLists
    /\ unique_key \in {NoUniqueKey, "url"}
    /\ unique = NoUnique
    /\ scraped_pages = 0
    /\ target_pages = 0
    /\ compared = NoCompared
    /\ hpc = "given"

CompareInit ==
    /\ input_records = <<>>
    /\ unique_key = NoUniqueKey
    /\ unique = NoUnique
    /\ scraped_pages \in 0..MaxCompare
    /\ target_pages \in 0..MaxCompare
    /\ compared = NoCompared
    /\ hpc = "given"

\* ------------------------------------------------------------ session_urls.json
\* the original_url values given to the start script, and the length of each
RegUrls == {"a.com", "bb.com"}
UrlLen(u) == IF u = "a.com" THEN 5 ELSE 6

\* session_key = str(session_id)
Key(s) == ToString(s)

NoUrlFound == "<None>"

\* the dict sessions: a set of <<key, url>> with one entry for a key
\* sessions[str(session_id)] = {'url': original_url, ...}
Put(sessions, s, u) == {e \in sessions : e[1] # Key(s)} \cup {<<Key(s), u>>}

\* the length of the text json.dump writes for the dict
RECURSIVE TextLen(_)
TextLen(sessions) ==
    IF sessions = {} THEN 2
    ELSE LET e == CHOOSE x \in sessions : TRUE
         IN  Len(e[1]) + UrlLen(e[2]) + TextLen(sessions \ {e})

NoFile == [kind |-> "none", sessions |-> {}, size |-> 0]
\* the file after open(SESSION_URLS_FILE, 'w'): it exists and is empty
Truncated == [kind |-> "invalid", sessions |-> {}, size |-> 0]

\* json.dump(sessions, f) and the close: the text is written from offset 0;
\* written over a longer text another process put there after this one's
\* open, it leaves the end of that text behind
Dump(file, sessions) ==
    IF TextLen(sessions) >= file.size
      THEN [kind |-> "json", sessions |-> sessions, size |-> TextLen(sessions)]
      ELSE [kind |-> "invalid", sessions |-> {}, size |-> file.size]

\* _get_original_url: None when the file is missing, when json.load raises
\* and when the key is not in the dict
get_original_url(file, s) ==
    IF file.kind = "json" /\ \E e \in file.sessions : e[1] = Key(s)
      THEN (CHOOSE e \in file.sessions : e[1] = Key(s))[2]
      ELSE NoUrlFound

RegOff ==
    /\ regFile = NoFile
    /\ regUrl = [s \in Sessions |-> "a.com"]
    /\ regPc = [s \in Sessions |-> "off"]
    /\ regLocal = [s \in Sessions |-> {}]
    /\ regGot = [s \in Sessions |-> NoUrlFound]

\* one start script per session is about to call save_session_url
RegInit ==
    /\ regFile = NoFile
    /\ regUrl \in [Sessions -> RegUrls]
    /\ regPc = [s \in Sessions |-> "idle"]
    /\ regLocal = [s \in Sessions |-> {}]
    /\ regGot = [s \in Sessions |-> NoUrlFound]

Init == CtlInit({1}) /\ RtInit /\ RecInit /\ UrlOff /\ MrgOff /\ HlpOff /\ RegOff

InitDual == CtlInit(AllMonitors) /\ RtInit /\ RecInit /\ UrlOff /\ MrgOff /\ HlpOff /\ RegOff

InitUrl == CtlInit({1}) /\ RtInit /\ RecInit /\ UrlInit /\ MrgOff /\ HlpOff /\ RegOff

InitMerge == CtlInit({1}) /\ RtInit /\ RecInit /\ UrlOff /\ MrgInit /\ HlpOff /\ RegOff

\* fetch_and_store_data is called for monitoring session 1 with a limit of
\* two rows or more
FetchInit ==
    /\ msess = create_monitoring_session([i \in MonIds |-> NoMon])
    /\ apiSid = 0
    /\ loopSid = 1
    /\ rpc = "off"
    /\ poll_count = 0
    /\ requests = 0
    /\ run = [status |-> "running", pages_crawled |-> 0, data_count |-> 0]
    /\ stored = {}
    /\ new_records = 0
    /\ offsets = <<>>
    /\ limit \in 2..MaxLimit

InitFetch == CtlInit({1}) /\ FetchInit /\ RecInit /\ UrlOff /\ MrgOff /\ HlpOff /\ RegOff

InitUnique == CtlInit({1}) /\ RtInit /\ RecInit /\ UrlOff /\ MrgOff /\ UniqueInit /\ RegOff

InitCompare == CtlInit({1}) /\ RtInit /\ RecInit /\ UrlOff /\ MrgOff /\ CompareInit /\ RegOff

InitReg == CtlInit({1}) /\ RtInit /\ RecInit /\ UrlOff /\ MrgOff /\ HlpOff /\ RegInit

\* ------------------------------------------------------- operator, start script
\* start_incremental_scraping.main: create_session(project_token, project_name, total_pages)
CreateSession(s, t) ==
    /\ sess[s].status = "none"
    /\ \A r \in Sessions : r < s => sess[r].status # "none"
    /\ sess' = [sess EXCEPT ![s] = NewRow(t)]
    /\ UNCHANGED <<urls, monitors, notCtl, monVars>>

\* save_session_url(session_id, original_url)
SaveSessionUrl(s) ==
    /\ sess[s].status # "none"
    /\ s \notin urls
    /\ urls' = urls \cup {s}
    /\ UNCHANGED <<sess, monitors, notCtl, monVars>>

\* cancel-session(session id): the operator cancels a running session.
CancelSession(s) ==
    /\ sess[s].status = "running"
    /\ sess' = [sess EXCEPT ![s].status = "cancelled"]
    /\ UNCHANGED <<urls, monitors, notCtl, monVars>>

\* ------------------------------------------------------------- monitor_loop
HasUrlAlways(registry, s) == TRUE

\* _get_original_url: the URL saved for the session in session_urls.json, or None
HasUrl(registry, s) == s \in registry

\* sessions = self.get_active_sessions()
ListSessions(m) ==
    /\ m \in monitors
    /\ mpc[m] = "idle"
    /\ queue' = [queue EXCEPT ![m] = get_active_sessions(sess)]
    /\ mpc' = [mpc EXCEPT ![m] = "loop"]
    /\ atList' = [atList EXCEPT ![m] = {s \in Sessions : sess[s].status = "running"}]
    /\ UNCHANGED <<sess, urls, monitors, notCtl, cur, inflight, lastDisp, lastResult, okRanges>>

\* sessions = self.get_active_sessions(): the query raised, the except returns []
ListSessionsFails(m) ==
    /\ m \in monitors
    /\ mpc[m] = "idle"
    /\ queue' = [queue EXCEPT ![m] = <<>>]
    /\ mpc' = [mpc EXCEPT ![m] = "loop"]
    /\ atList' = [atList EXCEPT ![m] = {}]
    /\ UNCHANGED <<sess, urls, monitors, notCtl, cur, inflight, lastDisp, lastResult, okRanges>>

\* for session in sessions: if pages_completed >= total_pages: mark complete; continue
LoopMarkComplete(m) ==
    /\ m \in monitors
    /\ mpc[m] = "loop"
    /\ queue[m] # <<>>
    /\ LET row == Head(queue[m]) IN
        /\ IsComplete(row.pages_completed, row.total_pages_target)
        /\ sess' = mark_session_complete(sess, row.session_id)
    /\ queue' = [queue EXCEPT ![m] = Tail(@)]
    /\ UNCHANGED <<urls, monitors, notCtl, mpc, cur, inflight, lastDisp, lastResult, okRanges, atList>>

\* the same check, mark_session_complete raising: the call is outside the
\* inner try, the outer except of the while loop takes it, sleeps and starts
\* the next cycle with the rest of the list not processed
LoopMarkCompleteRaises(m) ==
    /\ m \in monitors
    /\ mpc[m] = "loop"
    /\ queue[m] # <<>>
    /\ LET row == Head(queue[m]) IN
        IsComplete(row.pages_completed, row.total_pages_target)
    /\ queue' = [queue EXCEPT ![m] = <<>>]
    /\ mpc' = [mpc EXCEPT ![m] = "idle"]
    /\ UNCHANGED <<sess, urls, monitors, notCtl, cur, inflight, lastDisp, lastResult, okRanges, atList>>

\* process_session: no URL in session_urls.json -> return, retried next cycle
SkipNoUrl(m) ==
    /\ m \in monitors
    /\ mpc[m] = "loop"
    /\ queue[m] # <<>>
    /\ LET row == Head(queue[m]) IN
        /\ ~IsComplete(row.pages_completed, row.total_pages_target)
        /\ ~HasUrl(urls, row.session_id)
    /\ queue' = [queue EXCEPT ![m] = Tail(@)]
    /\ UNCHANGED <<sess, urls, monitors, notCtl, mpc, cur, inflight, lastDisp, lastResult, okRanges, atList>>

\* process_session: compute the range and call auto_runner.execute_iteration
Dispatch(m) ==
    /\ m \in monitors
    /\ mpc[m] = "loop"
    /\ queue[m] # <<>>
    /\ LET row == Head(queue[m])
           s == row.session_id
           start == StartPage(row.pages_completed)
           end == EndPage(start, row.total_pages_target)
           it == IterationNumber(row.current_iteration)
       IN
        /\ ~IsComplete(row.pages_completed, row.total_pages_target)
        /\ HasUrl(urls, s)
        /\ cur' = [cur EXCEPT ![m] = [sid |-> s, iter |-> it, start |-> start,
                                      end |-> end, total |-> row.total_pages_target]]
        /\ inflight' = [inflight EXCEPT ![s] = @ + 1]
        /\ lastDisp' = [lastDisp EXCEPT ![s] = [iter |-> it, start |-> start, end |-> end]]
        /\ lastResult' = [lastResult EXCEPT ![s] =
                            IF @ = "failed" THEN "retrying" ELSE "pending"]
    /\ queue' = [queue EXCEPT ![m] = Tail(@)]
    /\ mpc' = [mpc EXCEPT ![m] = AfterDispatch]
    /\ UNCHANGED <<sess, urls, monitors, notCtl, okRanges, atList>>

\* iter_res['success']: update_session_progress(session_id, new_pages_completed, 'running')
ExecutorSuccess(m) ==
    /\ m \in monitors
    /\ mpc[m] = "exec"
    /\ cur[m] # NoCall
    /\ LET call == cur[m]
           s == call.sid
           new_pages_completed == ExecutorPages(call)
       IN
        /\ sess' = update_session_progress(sess, s, new_pages_completed, "running")
        /\ inflight' = [inflight EXCEPT ![s] = @ - 1]
        /\ lastResult' = [lastResult EXCEPT ![s] = "ok"]
        /\ okRanges' = [okRanges EXCEPT ![s] = Append(@, <<call.start, call.end>>)]
        /\ IF IsComplete(new_pages_completed, call.total)
             THEN /\ mpc' = [mpc EXCEPT ![m] = "mark"]
                  /\ cur' = cur
             ELSE /\ mpc' = [mpc EXCEPT ![m] = "loop"]
                  /\ cur' = [cur EXCEPT ![m] = NoCall]
    /\ UNCHANGED <<urls, monitors, notCtl, queue, lastDisp, atList>>

\* if new_pages_completed >= total_pages: mark_session_complete(session_id)
MarkComplete(m) ==
    /\ m \in monitors
    /\ mpc[m] = "mark"
    /\ sess' = mark_session_complete(sess, cur[m].sid)
    /\ mpc' = [mpc EXCEPT ![m] = "loop"]
    /\ cur' = [cur EXCEPT ![m] = NoCall]
    /\ UNCHANGED <<urls, monitors, notCtl, queue, inflight, lastDisp, lastResult, okRanges, atList>>

\* the same call raising: the except of process_session takes it
MarkCompleteRaises(m) ==
    /\ m \in monitors
    /\ mpc[m] = "mark"
    /\ mpc' = [mpc EXCEPT ![m] = "loop"]
    /\ cur' = [cur EXCEPT ![m] = NoCall]
    /\ UNCHANGED <<sess, urls, monitors, notCtl, queue, inflight, lastDisp, lastResult, okRanges, atList>>

\* iter_res['success'] false, or execute_iteration raised
ExecutorFailure(m) ==
    /\ m \in monitors
    /\ mpc[m] = "exec"
    /\ cur[m] # NoCall
    /\ sess' = OnFailure(sess, cur[m])
    /\ inflight' = [inflight EXCEPT ![cur[m].sid] = @ - 1]
    /\ lastResult' = [lastResult EXCEPT ![cur[m].sid] = "failed"]
    /\ mpc' = [mpc EXCEPT ![m] = "loop"]
    /\ cur' = [cur EXCEPT ![m] = NoCall]
    /\ UNCHANGED <<urls, monitors, notCtl, queue, lastDisp, okRanges, atList>>

\* end of the for loop: time.sleep(5), next cycle
EndCycle(m) ==
    /\ m \in monitors
    /\ mpc[m] = "loop"
    /\ queue[m] = <<>>
    /\ mpc' = [mpc EXCEPT ![m] = "idle"]
    /\ UNCHANGED <<sess, urls, monitors, notCtl, queue, cur, inflight, lastDisp, lastResult,
                   okRanges, atList>>

Next ==
    \/ \E s \in Sessions, t \in Targets : CreateSession(s, t)
    \/ \E s \in Sessions : SaveSessionUrl(s)
    \/ \E s \in Sessions : CancelSession(s)
    \/ \E m \in AllMonitors : ListSessions(m)
    \/ \E m \in AllMonitors : LoopMarkComplete(m)
    \/ \E m \in AllMonitors : SkipNoUrl(m)
    \/ \E m \in AllMonitors : Dispatch(m)
    \/ \E m \in AllMonitors : ExecutorSuccess(m)
    \/ \E m \in AllMonitors : MarkComplete(m)
    \/ \E m \in AllMonitors : ExecutorFailure(m)
    \/ \E m \in AllMonitors : EndCycle(m)

Spec == Init /\ [][Next]_vars

\* The control loop with the calls that raise: the listing query and
\* mark_session_complete.
NextExc ==
    \/ Next
    \/ \E m \in AllMonitors : ListSessionsFails(m)
    \/ \E m \in AllMonitors : LoopMarkCompleteRaises(m)
    \/ \E m \in AllMonitors : MarkCompleteRaises(m)

SpecExc == Init /\ [][NextExc]_vars

\* One control loop whose calls on the store do not raise, sessions that are
\* not cancelled.
NextLive ==
    \/ \E s \in Sessions, t \in Targets : CreateSession(s, t)
    \/ \E s \in Sessions : SaveSessionUrl(s)
    \/ ListSessions(1)
    \/ LoopMarkComplete(1)
    \/ SkipNoUrl(1)
    \/ Dispatch(1)
    \/ ExecutorSuccess(1)
    \/ MarkComplete(1)
    \/ ExecutorFailure(1)
    \/ EndCycle(1)

\* monitor_loop: the steps of the loop's own thread
LoopStep ==
    \/ ListSessions(1)
    \/ LoopMarkComplete(1)
    \/ SkipNoUrl(1)
    \/ Dispatch(1)
    \/ MarkComplete(1)
    \/ EndCycle(1)

\* auto_runner.execute_iteration returns
ExecutorReturns == ExecutorSuccess(1) \/ ExecutorFailure(1)

\* The loop keeps running and every executor call returns.
SpecRetry == Init /\ [][NextLive]_vars /\ WF_vars(LoopStep) /\ WF_vars(ExecutorReturns)

\* Moreover a session's iterations do not fail for ever.
SpecLive == SpecRetry /\ SF_vars(ExecutorSuccess(1))

\* Two control-loop processes against one store, both working on session 1.
NextDual ==
    \/ \E t \in Targets : CreateSession(1, t)
    \/ SaveSessionUrl(1)
    \/ CancelSession(1)
    \/ \E m \in AllMonitors : ListSessions(m)
    \/ \E m \in AllMonitors : LoopMarkComplete(m)
    \/ \E m \in AllMonitors : SkipNoUrl(m)
    \/ \E m \in AllMonitors : Dispatch(m)
    \/ \E m \in AllMonitors : ExecutorSuccess(m)
    \/ \E m \in AllMonitors : MarkComplete(m)
    \/ \E m \in AllMonitors : ExecutorFailure(m)
    \/ \E m \in AllMonitors : EndCycle(m)

SpecDual == InitDual /\ [][NextDual]_vars

\* ------------------------------------------------------------- start script
\* is_monitor_running: SELECT 1 on the database, True when it answers
is_monitor_running(db_ok) == db_ok

\* the process that subprocess.Popen starts
NewMonitor(ms) == CHOOSE m \in AllMonitors \ ms : \A n \in AllMonitors \ ms : m <= n

\* start_incremental_scraping.main up to its success report: create_session,
\* save_session_url (url_saved), is_monitor_running (db_ok: the database
\* answers the ping), start_background_monitor (popen_ok)
StartScript(s, t, url_saved, db_ok, popen_ok) ==
    /\ sess[s].status = "none"
    /\ \A r \in Sessions : r < s => sess[r].status # "none"
    /\ sess' = [sess EXCEPT ![s] = NewRow(t)]
    /\ urls' = IF url_saved THEN urls \cup {s} ELSE urls
    /\ monitors' = IF ~is_monitor_running(db_ok) /\ popen_ok /\ monitors # AllMonitors
                      THEN monitors \cup {NewMonitor(monitors)}
                      ELSE monitors
    /\ UNCHANGED <<notCtl, monVars>>

InitStart == CtlInit({}) /\ RtInit /\ RecInit /\ UrlOff /\ MrgOff /\ HlpOff /\ RegOff

\* One session started by the start script, control loops started by it only.
NextStart ==
    \/ \E t \in Targets, url_saved \in BOOLEAN, db_ok \in BOOLEAN, popen_ok \in BOOLEAN :
          StartScript(1, t, url_saved, db_ok, popen_ok)
    \/ SaveSessionUrl(1)
    \/ CancelSession(1)
    \/ \E m \in AllMonitors : ListSessions(m)
    \/ \E m \in AllMonitors : LoopMarkComplete(m)
    \/ \E m \in AllMonitors : SkipNoUrl(m)
    \/ \E m \in AllMonitors : Dispatch(m)
    \/ \E m \in AllMonitors : ExecutorSuccess(m)
    \/ \E m \in AllMonitors : MarkComplete(m)
    \/ \E m \in AllMonitors : ExecutorFailure(m)
    \/ \E m \in AllMonitors : EndCycle(m)

SpecStart == InitStart /\ [][NextStart]_vars

\* ------------------------------------------------- run monitor: operations
\* /api/monitor/start: session_id = db.create_monitoring_session(...)
ApiStartMonitoring ==
    /\ apiSid = 0
    /\ msess' = create_monitoring_session(msess)
    /\ apiSid' = NextMonId(msess)
    /\ UNCHANGED <<notRt, loopSid, rpc, poll_count, requests, run, stored, new_records, offsets, limit>>

\* monitor_run_realtime: session_id = self.db.create_monitoring_session(...); poll_count = 0
MonitorRunStart ==
    /\ apiSid # 0
    /\ rpc = "off"
    /\ msess' = create_monitoring_session(msess)
    /\ loopSid' = NextMonId(msess)
    /\ rpc' = "polling"
    /\ poll_count' = 0
    /\ UNCHANGED <<notRt, apiSid, requests, run, stored, new_records, offsets, limit>>

\* while True: status_data = self.get_run_status(run_token) is None: the
\* warning, then time.sleep(2) and continue
PollTransportFailure ==
    /\ rpc = "polling"
    /\ LoopContinues(msess, loopSid)
    /\ requests' = Count(requests)
    /\ msess' = OnTransportFailure(msess, loopSid)
    /\ rpc' = AfterTransportFailure
    /\ UNCHANGED <<notRt, apiSid, loopSid, poll_count, run, stored, new_records, offsets, limit>>

\* time.sleep(2) returns and the while loop starts its next pass
PollSleep ==
    /\ rpc \in {"retry_wait", "poll_wait"}
    /\ rpc' = "polling"
    /\ UNCHANGED <<notRt, msess, apiSid, loopSid, poll_count, requests, run, stored, new_records, offsets, limit>>

\* while True: one poll that gets a status: fetch and store, update the
\* session, count the poll, and on a terminal status the final update and break
Poll(ok) ==
    /\ rpc = "polling"
    /\ LoopContinues(msess, loopSid)
    /\ requests' = Count(requests)
    /\ LET status_data == get_run_status(run)
           current_status == status_data.status
           upd == [status |-> current_status,
                   total_records |-> status_data.data_count,
                   total_pages |-> status_data.pages_crawled,
                   progress |-> status_data.progress_percentage]
           final == [status |-> current_status,
                     total_records |-> status_data.data_count,
                     total_pages |-> status_data.pages_crawled,
                     progress |-> IF current_status = "succeeded" THEN 100
                                  ELSE status_data.progress_percentage]
           polled == update_monitoring_session(msess, loopSid, upd)
       IN
        /\ LET fetched == fetch_and_store_data(stored, loopSid, 0, limit, run.data_count, ok)
           IN  /\ stored' = fetched.tbl
               /\ new_records' = fetched.stored_count
               /\ offsets' = fetched.offsets
        /\ poll_count' = Count(poll_count)
        /\ IF IsTerminal(current_status)
             THEN /\ msess' = update_monitoring_session(polled, loopSid, final)
                  /\ rpc' = "done"
             ELSE /\ msess' = polled
                  /\ rpc' = "poll_wait"
    /\ UNCHANGED <<notRt, apiSid, loopSid, run, limit>>

\* /api/monitor/stop: db.update_monitoring_session(session_id, status='cancelled')
StopMonitoring(id) ==
    /\ msess[id].status # "none"
    /\ msess' = update_monitoring_session(msess, id, [status |-> "cancelled"])
    /\ UNCHANGED <<notRt, apiSid, loopSid, rpc, poll_count, requests, run, stored, new_records, offsets, limit>>

\* The provider crawls one more page of the run.
ProviderCrawl ==
    /\ run.status = "running"
    /\ run.pages_crawled < MaxPages
    /\ run' = [run EXCEPT !.pages_crawled = @ + 1, !.data_count = @ + RecordsPerPage]
    /\ UNCHANGED <<notRt, msess, apiSid, loopSid, rpc, poll_count, requests, stored, new_records, offsets, limit>>

\* The provider ends the run.
ProviderEnd(st) ==
    /\ run.status = "running"
    /\ run' = [run EXCEPT !.status = st]
    /\ UNCHANGED <<notRt, msess, apiSid, loopSid, rpc, poll_count, requests, stored, new_records, offsets, limit>>

NextMon ==
    \/ ApiStartMonitoring
    \/ MonitorRunStart
    \/ PollTransportFailure
    \/ PollSleep
    \/ \E ok \in 0..NumChunks(run.data_count) : Poll(ok)
    \/ \E id \in MonIds : StopMonitoring(id)
    \/ ProviderCrawl
    \/ \E st \in RunStatuses \ {"running"} : ProviderEnd(st)

SpecMon == Init /\ [][NextMon]_vars

\* The thread that runs monitor_run_realtime keeps running: the request
\* returns (with a status or with None) and time.sleep(2) returns.
PollLoopStep ==
    \/ MonitorRunStart
    \/ PollTransportFailure
    \/ PollSleep
    \/ \E ok \in 0..NumChunks(run.data_count) : Poll(ok)

SpecMonFair == SpecMon /\ WF_vars(PollLoopStep)

\* fetch_and_store_data(session_id, project_id, run_token, 0, limit)
FetchAndStoreData(ok) ==
    /\ rpc = "off"
    /\ loopSid # 0
    /\ LET fetched == fetch_and_store_data(stored, loopSid, 0, limit, run.data_count, ok)
       IN  /\ stored' = fetched.tbl
           /\ new_records' = fetched.stored_count
           /\ offsets' = fetched.offsets
    /\ UNCHANGED <<notRt, msess, apiSid, loopSid, rpc, poll_count, requests, run, limit>>

NextFetch ==
    \/ ProviderCrawl
    \/ \E ok \in 0..NumChunks(run.data_count) : FetchAndStoreData(ok)

SpecFetch == InitFetch /\ [][NextFetch]_vars

\* ---------------------------------------------- recovery detector: actions
\* check_single_project(project_token, project_data) with the status that
\* check_project_status reports and the outcome ok of trigger_auto_recovery
\* (FALSE: the result reports failure, or the call raised)
CheckSingleProject(p, status, project_data, ok) ==
    LET handled == StopDetected(status, project_data)
        triggered == handled /\ ~AtCap(recovery_attempts, p)
    IN
    /\ triggered => triggers[p] < MaxTriggers
    /\ recovery_attempts' = IF handled THEN handle_stop_detected(recovery_attempts, p, ok)
                             ELSE recovery_attempts
    /\ triggers' = IF triggered THEN [triggers EXCEPT ![p] = @ + 1] ELSE triggers
    /\ lastCall' = [op |-> "check", project |-> p, status |-> status, data |-> project_data,
                    handled |-> handled, triggered |-> triggered]
    /\ UNCHANGED <<notRec>>

\* check_single_project: check_project_status raised, caught by the except
CheckStatusRaises(p) ==
    /\ lastCall' = [NoCallYet EXCEPT !.op = "check", !.project = p, !.status = "raised"]
    /\ UNCHANGED <<notRec, recovery_attempts, triggers>>

\* trigger_recovery(project_token) called on the service by another caller
TriggerRecovery(p, ok) ==
    /\ GetAttempts(recovery_attempts, p) < MaxTriggers
    /\ recovery_attempts' = trigger_recovery(recovery_attempts, p, ok)
    /\ lastCall' = [NoCallYet EXCEPT !.op = "trigger", !.project = p, !.triggered = TRUE]
    /\ UNCHANGED <<notRec, triggers>>

\* reset_recovery_counter(project_token)
ResetRecoveryCounter(p) ==
    /\ recovery_attempts' = reset_recovery_counter(recovery_attempts, p)
    /\ triggers' = IF p \in DOMAIN recovery_attempts THEN [triggers EXCEPT ![p] = 0]
                    ELSE triggers
    /\ lastCall' = [NoCallYet EXCEPT !.op = "reset", !.project = p]
    /\ UNCHANGED <<notRec>>

NextRec ==
    \/ \E p \in Projects, status \in ProjectStatuses, ok \in BOOLEAN :
          \E project_data \in DataRead(status) : CheckSingleProject(p, status, project_data, ok)
    \/ \E p \in Projects : CheckStatusRaises(p)
    \/ \E p \in Projects, ok \in BOOLEAN : TriggerRecovery(p, ok)
    \/ \E p \in Projects : ResetRecoveryCounter(p)

SpecRec == Init /\ [][NextRec]_vars

\* --------------------------------------------------- URL generator: calls
\* detect_pattern(url)
DetectPattern ==
    /\ upc = "input"
    /\ info' = detect_pattern(url)
    /\ upc' = "detected"
    /\ UNCHANGED <<notUrl, url, target, nextUrl, nextPageUrl, again>>

\* generate_next_url(url, target)
GenerateNextUrl ==
    /\ upc = "detected"
    /\ nextUrl' = generate_next_url(url, target)
    /\ upc' = "generated"
    /\ UNCHANGED <<notUrl, url, target, info, nextPageUrl, again>>

\* detect_pattern on the URL that was generated
DetectAgain ==
    /\ upc = "generated"
    /\ ~nextUrl.raised
    /\ again' = detect_pattern(nextUrl.url)
    /\ upc' = "redetected"
    /\ UNCHANGED <<notUrl, url, target, info, nextUrl, nextPageUrl>>

\* PaginationService.generate_next_page_url(url, target - 1)
GenerateNextPageUrl ==
    /\ upc # "off"
    /\ nextPageUrl = <<>>
    /\ nextPageUrl' = generate_next_page_url(url, target - 1)
    /\ UNCHANGED <<notUrl, url, target, info, nextUrl, again, upc>>

NextUrl == DetectPattern \/ GenerateNextUrl \/ DetectAgain \/ GenerateNextPageUrl

SpecUrl == InitUrl /\ [][NextUrl]_vars

\* --------------------------------------------------- consolidation: calls
\* merge_csv_data(csv_files, deduplicate)
MergeCsvData ==
    /\ cpc = "given"
    /\ all_records' = merge_csv_data(csv_files, deduplicate).all_records
    /\ merged' = merge_csv_data(csv_files, deduplicate).result
    /\ cpc' = "merged"
    /\ UNCHANGED <<notMrg, csv_files, deduplicate>>

NextMerge == MergeCsvData

SpecMerge == InitMerge /\ [][NextMerge]_vars

\* identify_unique_records(records, unique_key)
IdentifyUniqueRecords ==
    /\ hpc = "given"
    /\ unique' = identify_unique_records(input_records, unique_key)
    /\ hpc' = "done"
    /\ UNCHANGED <<notHlp, input_records, unique_key, scraped_pages, target_pages, compared>>

NextUnique == IdentifyUniqueRecords

SpecUnique == InitUnique /\ [][NextUnique]_vars

\* compare_pages(scraped_pages, target_pages)
ComparePages ==
    /\ hpc = "given"
    /\ compared' = compare_pages(scraped_pages, target_pages)
    /\ hpc' = "done"
    /\ UNCHANGED <<notHlp, input_records, unique_key, unique, scraped_pages, target_pages>>

NextCompare == ComparePages

SpecCompare == InitCompare /\ [][NextCompare]_vars

\* ------------------------------------------------------- session_urls.json
\* save_session_url: if os.path.exists(...): sessions = json.load(f) else {};
\* sessions[str(session_id)] = {...}. json.load raising ends the call in the
\* except, which returns False
SaveLoad(s) ==
    /\ regPc[s] = "idle"
    /\ IF regFile.kind = "invalid"
         THEN /\ regPc' = [regPc EXCEPT ![s] = "failed"]
              /\ regLocal' = regLocal
         ELSE /\ regPc' = [regPc EXCEPT ![s] = "loaded"]
              /\ regLocal' = [regLocal EXCEPT ![s] = Put(regFile.sessions, s, regUrl[s])]
    /\ UNCHANGED <<notReg, regFile, regUrl, regGot>>

\* with open(SESSION_URLS_FILE, 'w') as f: the file is created or truncated
SaveOpen(s) ==
    /\ regPc[s] = "loaded"
    /\ regFile' = Truncated
    /\ regPc' = [regPc EXCEPT ![s] = "open"]
    /\ UNCHANGED <<notReg, regUrl, regLocal, regGot>>

\* json.dump(sessions, f, indent=2), the file is closed; return True
SaveDump(s) ==
    /\ regPc[s] = "open"
    /\ regFile' = Dump(regFile, regLocal[s])
    /\ regPc' = [regPc EXCEPT ![s] = "done"]
    /\ UNCHANGED <<notReg, regUrl, regLocal, regGot>>

\* SessionMonitor._get_original_url(session_id)
GetOriginalUrl(s) ==
    /\ regPc[s] # "off"
    /\ regGot' = [regGot EXCEPT ![s] = get_original_url(regFile, s)]
    /\ UNCHANGED <<notReg, regFile, regUrl, regPc, regLocal>>

NextReg ==
    \/ \E s \in Sessions : SaveLoad(s)
    \/ \E s \in Sessions : SaveOpen(s)
    \/ \E s \in Sessions : SaveDump(s)
    \/ \E s \in Sessions : GetOriginalUrl(s)

SpecReg == InitReg /\ [][NextReg]_vars

\* ------------------------------------------------------------------ claims
IsPrefix(p, q) == Len(p) <= Len(q) /\ \A i \in 1..Len(p) : p[i] = q[i]

ScenarioRanges == << <<1, 10>>, <<11, 20>>, <<21, 25>> >>

\* C1: the iteration handed to the executor for a running session has
\* start_page = pages_completed + 1 and end_page = min(pages_completed + 10,
\* total_pages_target), taken on the stored session; with a target of 25 the
\* successful ranges are [1,10], [11,20], [21,25] in that order.
C1_DispatchedRange ==
    /\ \A m \in monitors : mpc[m] = "exec" =>
          LET s == cur[m].sid IN
            /\ sess[s].pages < sess[s].total
            /\ cur[m].start = sess[s].pages + 1
            /\ cur[m].end = Min(sess[s].pages + 10, sess[s].total)
    /\ \A s \in Sessions : sess[s].total = 25 =>
          /\ IsPrefix(okRanges[s], ScenarioRanges)
          /\ lastDisp[s] # NoDisp =>
                \E i \in 1..3 : ScenarioRanges[i] = <<lastDisp[s].start, lastDisp[s].end>>

C1_Witness ==
    \E s \in Sessions : sess[s].total = 25 /\ okRanges[s] = ScenarioRanges

\* C2: a session has status completed only if pages_completed >= total_pages_target.
C2_CompletedOnlyAtTarget ==
    \A s \in Sessions : sess[s].status = "completed" => sess[s].pages >= sess[s].total

C2_Witness ==
    \E s \in Sessions :
        sess[s].status = "completed" /\ sess[s].total = 25 /\ Len(okRanges[s]) = 3

\* C3: whenever no iteration of a session is in flight, its pages_completed
\* is at most its total_pages_target: the value written after a successful
\* iteration never exceeds the target.
C3_PagesWithinTarget ==
    \A s \in Sessions :
        sess[s].status # "none" /\ inflight[s] = 0 => sess[s].pages <= sess[s].total

C3_Witness ==
    \E s \in Sessions :
        /\ lastResult[s] = "ok" /\ inflight[s] = 0
        /\ sess[s].pages = 25 /\ sess[s].total = 25 /\ sess[s].status = "running"

\* C4: a failed (or raising) executor call leaves the session row as it was,
\* still running, and the next dispatch of the session repeats the same
\* iteration number and page range.
C4_FailureRetriesSameRange ==
    [][\A s \in Sessions :
          /\ (lastResult[s] \in {"pending", "retrying"} /\ lastResult'[s] = "failed")
                => sess'[s] = sess[s]
          /\ (lastResult[s] = "failed" /\ lastResult'[s] = "retrying")
                => lastDisp'[s] = lastDisp[s]]_vars

C4_Witness ==
    \E s \in Sessions :
        lastResult[s] = "retrying" /\ lastDisp[s].start = 11 /\ sess[s].pages = 10

C6_SingleWriter ==
    [][\A s \in Sessions :
          inflight'[s] <= 1 /\ sess'[s].pages >= sess[s].pages]_vars

\* C7: iterations of one session are dispatched with non-decreasing
\* iteration numbers, and a new one only when none is in flight.
C7_SerialDispatch ==
    [][\A s \in Sessions :
          /\ inflight'[s] > inflight[s] => inflight[s] = 0
          /\ lastDisp[s] # NoDisp => lastDisp'[s].iter >= lastDisp[s].iter]_vars

C7_Witness ==
    \E s \in Sessions : inflight[s] = 1 /\ lastDisp[s].iter = 2 /\ Len(okRanges[s]) = 1

\* C8: a session that is cancelled, failed or completed keeps that status:
\* in particular one that reaches such a status while its iteration is in
\* flight still has it after the iteration returns.
C8_TerminalStatusStays ==
    [][\A s \in Sessions :
          (inflight[s] > 0 /\ sess[s].status \in {"cancelled", "failed", "completed"})
              => sess'[s].status = sess[s].status]_vars

\* C9: a session that was not running when a cycle listed the active
\* sessions is neither dispatched nor modified by that cycle.
MonitorSteps(m) == mpc'[m] # mpc[m] \/ queue'[m] # queue[m] \/ cur'[m] # cur[m]

C9_NotListedNotTouched ==
    [][\A m \in AllMonitors, s \in Sessions :
          (MonitorSteps(m) /\ s \notin atList'[m]) =>
              /\ sess'[s] = sess[s]
              /\ (mpc'[m] = "exec" => cur'[m].sid # s)]_vars

C9_Witness ==
    \E m \in AllMonitors, s \in Sessions :
        /\ sess[s].status = "cancelled" /\ s \notin atList[m] /\ s \in urls
        /\ sess[s].pages < sess[s].total
        /\ mpc[m] = "exec" /\ cur[m].sid # s

\* C10: once the monitoring session of a run that is being polled has been
\* cancelled through the stop operation, the polling loop sends no further
\* status request and the stored status stays cancelled.
C10_StopAbortsPolling ==
    [][(rpc = "polling" /\ msess[loopSid].status = "cancelled") =>
          /\ requests' = requests
          /\ stored' = stored
          /\ msess'[loopSid].status = "cancelled"]_vars

\* C11: the polling loop does not poll for ever on a provider that does not
\* respond: a loop whose status requests all fail from some point on does not
\* stay for ever between the failed request and the wait before the next one,
\* it ends after a bounded number of polls.
C11_PollingIsCapped == []<>(rpc \notin {"polling", "retry_wait"})

\* C12: a status request that fails in transport writes nothing to the stored
\* session (no 'failed' status), stores no record and does not end the loop,
\* which ends only on a terminal status answered by the provider; after the
\* wait the loop sends the status request again.
C12_TransportFailureNotFatal ==
    [][/\ (rpc = "polling" /\ rpc' = "retry_wait") =>
             msess' = msess /\ stored' = stored /\ poll_count' = poll_count
       /\ (rpc = "polling" /\ rpc' = "done") =>
             /\ run.status \in {"succeeded", "failed", "cancelled"}
             /\ msess'[loopSid].status = run.status
       /\ (rpc = "polling" /\ rpc' # rpc) => rpc' \in {"retry_wait", "poll_wait", "done"}
       /\ (rpc = "retry_wait" /\ rpc' # rpc) => rpc' = "polling"]_vars

C12_Witness ==
    /\ rpc = "retry_wait"
    /\ poll_count = 1
    /\ requests = 3
    /\ msess[loopSid].status = "running"
    /\ run.status = "running"

\* C13: in every reachable state the recovery attempt counter of every
\* project is at most max_recovery_attempts, whatever sequence of
\* check_single_project, trigger_recovery and reset_recovery_counter calls
\* was made.
C13_CounterWithinCap ==
    \A p \in DOMAIN recovery_attempts : recovery_attempts[p] <= max_recovery_attempts

\* C14: a check that detects a stop for a project whose counter has reached
\* max_recovery_attempts triggers no recovery and changes neither the counter
\* nor anything else, on every check until the counter is reset; a reset
\* removes the counter, and the next detected stop triggers a recovery again.
C14_NoActionAtCap ==
    [][\A p \in Projects :
        /\ (/\ lastCall'.op = "check" /\ lastCall'.project = p /\ lastCall'.handled
            /\ p \in DOMAIN recovery_attempts
            /\ recovery_attempts[p] >= max_recovery_attempts)
              => /\ ~lastCall'.triggered
                 /\ recovery_attempts' = recovery_attempts
                 /\ triggers' = triggers
                 /\ ctlVars' = ctlVars /\ rtVars' = rtVars
        /\ (lastCall'.op = "reset" /\ lastCall'.project = p)
              => p \notin DOMAIN recovery_attempts'
        /\ (/\ lastCall'.op = "check" /\ lastCall'.project = p /\ lastCall'.handled
            /\ p \notin DOMAIN recovery_attempts)
              => /\ lastCall'.triggered
                 /\ triggers'[p] = triggers[p] + 1
                 /\ p \in DOMAIN recovery_attempts']_vars

C14_Witness ==
    /\ lastCall.op = "check" /\ lastCall.handled /\ ~lastCall.triggered
    /\ lastCall.status = "stuck"
    /\ lastCall.project \in DOMAIN recovery_attempts
    /\ recovery_attempts[lastCall.project] = max_recovery_attempts
    /\ triggers[lastCall.project] = max_recovery_attempts

\* C15: between two resets of a project's counter the periodic check starts
\* at most max_recovery_attempts recoveries for the project, the ones whose
\* trigger reports failure included.
C15_TriggersWithinCap == \A p \in Projects : triggers[p] <= max_recovery_attempts

\* C16: check_single_project starts stop handling exactly when the status is
\* stuck, or cancelled, or completed with a last run of pages_scraped < 5 and
\* data_count < 20; for every other status it triggers no recovery and
\* changes no attempt counter.
C16_StopHandlingCondition ==
    [][lastCall'.op = "check" =>
        /\ lastCall'.handled <=>
              \/ lastCall'.status = "stuck"
              \/ lastCall'.status = "cancelled"
              \/ /\ lastCall'.status = "completed"
                 /\ lastCall'.data.has
                 /\ lastCall'.data.pages_scraped < 5
                 /\ lastCall'.data.data_count < 20
        /\ ~lastCall'.handled =>
              /\ ~lastCall'.triggered
              /\ recovery_attempts' = recovery_attempts
              /\ triggers' = triggers]_vars

C16_Witness ==
    /\ lastCall.op = "check" /\ lastCall.status = "completed"
    /\ lastCall.data.has
    /\ lastCall.data.pages_scraped = 4 /\ lastCall.data.data_count = 19
    /\ lastCall.handled /\ lastCall.triggered
    /\ lastCall.project \in DOMAIN recovery_attempts
    /\ recovery_attempts[lastCall.project] = 1

\* C17: with the control loop weakly fair, every executor call returning and
\* no session's iterations failing for ever, every running session that has
\* a registered URL eventually reaches the status completed.
C17_RunningLeadsToCompleted ==
    \A s \in Sessions :
        (sess[s].status = "running" /\ s \in urls) ~> (sess[s].status = "completed")

C17_Witness ==
    /\ sess[1].status = "completed" /\ sess[1].total = 25 /\ sess[1].pages = 25
    /\ sess[2].status = "completed" /\ sess[2].total = pages_per_iteration
    /\ okRanges[1] = ScenarioRanges

\* C18: a running session whose iterations keep failing does not stay
\* running with the same range retried for ever: it leaves the state running
\* (it becomes failed).
C18_FailingSessionLeavesRunning ==
    \A s \in Sessions :
        []<>(~(sess[s].status = "running" /\ lastResult[s] \in {"failed", "retrying"}))

\* C19: while sessions listed in a cycle are still waiting to be processed,
\* no step of the control loop ends the cycle or drops them: the loop goes on
\* to the next listed session whatever happened to the one before; a listing
\* that fails gives an empty cycle and the loop goes on.
C19_FailureDoesNotBlockOthers ==
    [][\A m \in monitors :
        /\ (mpc[m] = "loop" /\ Len(queue[m]) >= 2) =>
              /\ mpc'[m] # "idle"
              /\ queue'[m] \in {queue[m], Tail(queue[m])}
        /\ (mpc[m] \in {"exec", "mark"}) =>
              /\ mpc'[m] # "idle"
              /\ queue'[m] = queue[m]]_vars

\* C20: a running session without a registered URL is passed over when its
\* turn comes in a cycle: no executor call is made for it and its row is not
\* written (status running, pages_completed and current_iteration unchanged,
\* never failed); a listed session that has a URL and is not complete is
\* dispatched when its turn comes.
C20_NoUrlSkipped ==
    [][\A m \in monitors :
        (mpc[m] = "loop" /\ queue[m] # <<>> /\ (queue'[m] # queue[m] \/ mpc'[m] # mpc[m])) =>
          LET row == Head(queue[m])
              s == row.session_id
          IN  /\ (s \notin urls /\ row.pages_completed < row.total_pages_target) =>
                    /\ sess' = sess
                    /\ inflight' = inflight
                    /\ mpc'[m] = "loop" /\ cur'[m] = NoCall
                    /\ queue'[m] = Tail(queue[m])
              /\ (s \in urls /\ row.pages_completed < row.total_pages_target) =>
                    /\ mpc'[m] = "exec" /\ cur'[m].sid = s
                    /\ inflight'[s] = inflight[s] + 1]_vars

C20_Witness ==
    /\ mpc[1] = "loop" /\ queue[1] = <<>>
    /\ 2 \in atList[1] /\ 2 \notin urls
    /\ sess[2].status = "running" /\ sess[2].pages = 0 /\ sess[2].total = 25
    /\ sess[2].iter = DefaultIteration
    /\ inflight[2] = 0 /\ okRanges[2] = <<>>
    /\ lastResult[1] = "ok" /\ 1 \in atList[1]

\* C21: the ranges of the successful iterations of a session are contiguous
\* and do not overlap: the first starts at page 1, each next one starts one
\* page after the end of the one before, and together they cover the pages
\* 1..pages_completed without a gap, within the target.
C21_RangesContiguous ==
    \A s \in Sessions :
        LET r == okRanges[s] IN
        Len(r) > 0 =>
            /\ r[1][1] = 1
            /\ \A i \in 1..Len(r) : r[i][1] <= r[i][2] /\ r[i][2] <= sess[s].total
            /\ \A i \in 1..(Len(r) - 1) : r[i + 1][1] = r[i][2] + 1
            /\ r[Len(r)][2] = sess[s].pages

C21_Witness ==
    /\ Len(okRanges[1]) = 3 /\ okRanges[1][3][2] = sess[1].total
    /\ Len(okRanges[2]) = 2 /\ okRanges[2][2][1] = pages_per_iteration + 1
    /\ lastResult[2] = "failed"

\* C22: once the start script has reported success for a session it created,
\* a control-loop process exists to pick the session up.
C22_MonitorExistsAfterStart ==
    (\E s \in Sessions : sess[s].status # "none") => monitors # {}

\* C23: for a URL that matches a known pagination pattern and a target page
\* N >= 1, detecting the pattern, generating the URL of page N and detecting
\* again gives currentPage = N.
C23_RoundTrip ==
    (upc = "redetected" /\ info.pattern_type # "unknown") =>
        ~again.raised /\ again.current_page = target

\* C24: generate_next_url rewrites the matched pagination component: for the
\* kinds page= and p= the new value is the target page, for the kinds offset=
\* and start= it is the item offset (target - 1) * 20 and not the page number.
C24_RewritesComponent ==
    (upc \in {"generated", "redetected"} /\ ~nextUrl.raised) =>
        LET low == Lower(url)
            out == nextUrl.url
        IN /\ \A key \in {"page", "p"} :
                info.pattern_type = "query_" \o key =>
                    \A i \in 1..Len(low) :
                        QueryAt(low, i, key) => out[i + 3] = D(target, 0)
           /\ \A key \in {"offset", "start"} :
                info.pattern_type = "query_" \o key =>
                    \A i \in 1..Len(low) :
                        QueryAt(low, i, key) =>
                            /\ out[i + 3] = D((target - 1) * 20, 0)
                            /\ out[i + 3].n # target

\* C25: detect_pattern returns a result for every URL: the first kind that
\* matches in the order page=, p=, offset=, start=, path page, generic
\* key=integer, with currentPage the matched integer (for the generic kind
\* too), and kind unknown with currentPage 1 when nothing matches.
C25_DetectTotal ==
    upc \in {"detected", "generated", "redetected"} =>
        LET low == Lower(url) IN
        /\ ~info.raised
        /\ \A k \in 1..Len(PatternNames) :
              info.pattern_type = PatternNames[k] =>
                  /\ Search(PatternNames[k], low) # 0
                  /\ \A j \in 1..(k - 1) : Search(PatternNames[j], low) = 0
        /\ info.pattern_type = "query_custom" =>
              info.current_page = low[Search("query_custom", low) + 3].n
        /\ info.pattern_type = "unknown" <=>
              \A k \in 1..Len(PatternNames) : Search(PatternNames[k], low) = 0
        /\ info.pattern_type = "unknown" => info.current_page = 1

\* C26: generate_next_url returns a URL for every URL and target page, it
\* never raises; when no known pattern matches, the URL returned is the URL
\* given with page=N appended, after '&' if the URL contains '?' and after
\* '?' otherwise.
C26_AlwaysReturnsUrl ==
    upc \in {"generated", "redetected"} =>
        /\ ~nextUrl.raised
        /\ nextUrl.url # <<>>
        /\ info.pattern_type = "unknown" =>
              nextUrl.url = url \o <<IF W("?") \in {url[i] : i \in 1..Len(url)}
                                       THEN W("&") ELSE W("?"),
                                     W("page"), W("="), D(target, 0)>>

HeaderSet(b) == {b.header[i] : i \in 1..Len(b.header)}

NoExtraFields(b) == \A i \in 1..Len(b.rows) : Len(b.rows[i]) <= Len(b.header)

Compatible(b1, b2) ==
    /\ b1.text /\ b2.text
    /\ HeaderSet(b1) = HeaderSet(b2)
    /\ NoExtraFields(b1) /\ NoExtraFields(b2)

Dicts(b) ==
    {Entries(parse_csv_to_records(b).records[i]) : i \in 1..Len(b.rows)}

WrittenRows(result) ==
    {result.merged_csv.rows[i] : i \in 1..Len(result.merged_csv.rows)}

\* C27: for two batches whose headers name the same columns (and whose rows
\* have no field beyond the header), merging with deduplication returns
\* total_records + deduplicated_count = len(b1) + len(b2), and the merged text
\* has total_records rows: each input row is kept or counted as a dropped
\* duplicate, never lost and never counted twice.
C27_Accounting ==
    (/\ cpc = "merged" /\ deduplicate
     /\ Len(csv_files) = 2
     /\ Compatible(csv_files[1], csv_files[2])) =>
        /\ merged.total_records + merged.deduplicated_count =
               Len(csv_files[1].rows) + Len(csv_files[2].rows)
        /\ Len(merged.merged_csv.rows) = merged.total_records

C27_Witness ==
    /\ cpc = "merged" /\ deduplicate
    /\ Len(csv_files) = 2
    /\ Compatible(csv_files[1], csv_files[2])
    /\ csv_files[1].header # csv_files[2].header
    /\ merged.total_records = 2
    /\ merged.deduplicated_count = 2

\* C28: merging with deduplication keeps each distinct row fingerprint once.
\* No two kept records have the same fingerprint, nor the same fields (rows
\* with fields beyond the header apart, whose fingerprint follows the order of
\* the columns), and every row read is among the kept records; merging a batch with itself returns what merging the batch
\* alone returns, that is one row per distinct row of the batch; two one-row
\* batches whose rows have the same fields give total_records = 1 and
\* deduplicated_count = 1.
C28_EachFingerprintOnce ==
    (cpc = "merged" /\ deduplicate) =>
        /\ \A i, j \in 1..Len(all_records) :
               i # j => /\ generate_record_hash(all_records[i]) #
                            generate_record_hash(all_records[j])
                        /\ (~HasNoneKey(all_records[i]) \/
                             ~HasNoneKey(all_records[j])) =>
                               Entries(all_records[i]) # Entries(all_records[j])
        /\ \A k \in 1..Len(csv_files) :
               Dicts(csv_files[k]) \subseteq
                   {Entries(all_records[i]) : i \in 1..Len(all_records)}
        /\ (Len(csv_files) = 2 /\ csv_files[1] = csv_files[2]) =>
               /\ merged.merged_csv =
                      merge_csv_data(<<csv_files[1]>>, TRUE).result.merged_csv
               /\ (csv_files[1].text /\ NoExtraFields(csv_files[1])) =>
                      merged.total_records = Cardinality(Dicts(csv_files[1]))
        /\ (/\ Len(csv_files) = 2
            /\ Compatible(csv_files[1], csv_files[2])
            /\ Len(csv_files[1].rows) = 1 /\ Len(csv_files[2].rows) = 1
            /\ Dicts(csv_files[1]) = Dicts(csv_files[2])) =>
               merged.total_records = 1 /\ merged.deduplicated_count = 1

C28_Witness ==
    /\ cpc = "merged" /\ deduplicate
    /\ Len(csv_files) = 2
    /\ Compatible(csv_files[1], csv_files[2])
    /\ csv_files[1].header # csv_files[2].header
    /\ Len(csv_files[1].rows) = 1 /\ Len(csv_files[2].rows) = 1
    /\ Dicts(csv_files[1]) = Dicts(csv_files[2])
    /\ merged.total_records = 1 /\ merged.deduplicated_count = 1

\* C29: the header of the merged table is the union of the headers of all the
\* batches, in sorted order; a row lacking a field is written with an empty
\* value for it, and the rows of every batch are in the merged table.
C29_HeaderUnion ==
    (/\ cpc = "merged"
     /\ csv_files # <<>>
     /\ \A k \in 1..Len(csv_files) :
            /\ csv_files[k].text /\ NoExtraFields(csv_files[k])
            /\ csv_files[k].header # <<>>) =>
        /\ HeaderSet(merged.merged_csv) =
               UNION {HeaderSet(csv_files[k]) : k \in 1..Len(csv_files)}
        /\ \A i, j \in 1..Len(merged.merged_csv.header) :
               i < j => Rank(merged.merged_csv.header[i]) <
                            Rank(merged.merged_csv.header[j])
        /\ \A k \in 1..Len(csv_files) :
               \A i \in 1..Len(csv_files[k].rows) :
                   WriteRow(merged.merged_csv.header,
                            parse_csv_to_records(csv_files[k]).records[i])
                       \in WrittenRows(merged)

\* C30: a batch that cannot be parsed, or that has a row that cannot be
\* written, is skipped and never fatal to the merge: wherever it stands in
\* the list, the merged table has the rows of all the well-formed batches.
Malformed(b) == ~b.text \/ ~NoExtraFields(b)

C30_MalformedSkipped ==
    (/\ cpc = "merged"
     /\ \E k \in 1..Len(csv_files) : Malformed(csv_files[k])
     /\ \A k, l \in 1..Len(csv_files) :
            (~Malformed(csv_files[k]) /\ ~Malformed(csv_files[l])) =>
                csv_files[k].header = csv_files[l].header) =>
        \A k \in 1..Len(csv_files) :
            ~Malformed(csv_files[k]) =>
                \A i \in 1..Len(csv_files[k].rows) :
                    WriteRow(csv_files[k].header,
                             parse_csv_to_records(csv_files[k]).records[i])
                        \in WrittenRows(merged)

\* the key under which row r of the provider is stored by a fetch with limit
RowKey(r) == <<((r - 1) \div limit) + 1, data_hash(ProviderRow(r))>>

StoredKeys == {<<e.page_number, e.data_hash>> : e \in stored}

AllStored == \A r \in 1..run.data_count : RowKey(r) \in StoredKeys

\* C31: no two stored rows have the same run, page number and content
\* fingerprint, and storing again records that are already stored adds no
\* row and returns 0: a fetch from offset 0 made when every row of the run is
\* stored leaves the table as it is, and a second complete fetch after a
\* first one stores nothing.
C31_ReingestIdempotent ==
    /\ \A e, f \in stored :
           (e.page_number = f.page_number /\ e.data_hash = f.data_hash) => e = f
    /\ Cardinality({e.id : e \in stored}) = Cardinality(stored)
    /\ AllStored =>
           \A ok \in 0..NumChunks(run.data_count) :
               LET again_ == fetch_and_store_data(stored, loopSid, 0, limit,
                                                  run.data_count, ok)
               IN  again_.tbl = stored /\ again_.stored_count = 0
    /\ LET once == fetch_and_store_data(stored, loopSid, 0, limit,
                                        run.data_count, NumChunks(run.data_count))
           twice == fetch_and_store_data(once.tbl, loopSid, 0, limit,
                                         run.data_count, NumChunks(run.data_count))
       IN  twice.tbl = once.tbl /\ twice.stored_count = 0

C31_Witness ==
    /\ AllStored
    /\ run.data_count = MaxPages * RecordsPerPage
    /\ Cardinality(stored) < run.data_count
    /\ \E e, f \in stored : e.page_number # f.page_number
    /\ Len(offsets) >= 2
    /\ new_records = 0

\* C32: a fetch from offset 0 requests the offsets 0, limit, 2 * limit, ...
\* in increasing order, goes on exactly while offset + limit < total_count,
\* and returns the number of rows that the chunks it fetched added to the
\* table; when a later request fails the rows of the earlier chunks are
\* stored and counted.
C32_ChunksInOrder ==
    [][(run' = run /\ <<stored, new_records, offsets>>' # <<stored, new_records, offsets>>) =>
          \E ok \in 0..NumChunks(run.data_count) :
              LET n == IF ok < NumChunks(run.data_count) THEN ok + 1
                       ELSE NumChunks(run.data_count)
                  fetchedRows == 1..Min(ok * limit, run.data_count)
              IN  /\ offsets' = [i \in 1..n |-> (i - 1) * limit]
                  /\ \A i \in 1..n :
                         i < n <=> (offsets'[i] + limit < run.data_count /\ i <= ok)
                  /\ stored \subseteq stored'
                  /\ {<<e.page_number, e.data_hash>> : e \in stored'} =
                         StoredKeys \cup {RowKey(r) : r \in fetchedRows}
                  /\ new_records' = Cardinality(stored') - Cardinality(stored)]_vars

C32_Witness ==
    /\ Len(offsets) = 3
    /\ limit = 2
    /\ run.data_count = 2 * RecordsPerPage
    /\ new_records = 3
    /\ Cardinality(stored) = 3
    /\ ~AllStored

\* the key the contract gives a record: the value of the column when the
\* record has it, else all its fields
ContractKey(record) ==
    IF unique_key # NoUniqueKey /\ \E e \in Entries(record) : e.k = unique_key
    THEN [value |-> (CHOOSE e \in Entries(record) : e.k = unique_key).v]
    ELSE [fields |-> Entries(record)]

FirstOfKey ==
    {i \in 1..Len(input_records) :
        \A j \in 1..(i - 1) : ContractKey(input_records[j]) # ContractKey(input_records[i])}

\* C33: deduplication by a unique-key column returns, in input order, the
\* first record of each distinct value of the column (of each distinct
\* full-row fingerprint for the input_records without the column) and nothing
\* else, and len(unique_records) + duplicates is the number of records given.
C33_FirstOfEachKey ==
    hpc = "done" =>
        /\ Len(unique.unique_records) = Cardinality(FirstOfKey)
        /\ \A n \in 1..Len(unique.unique_records) :
               unique.unique_records[n] =
                   input_records[CHOOSE i \in FirstOfKey :
                               Cardinality({j \in FirstOfKey : j < i}) = n - 1]
        /\ Len(unique.unique_records) + unique.duplicates = Len(input_records)

C33_Witness ==
    /\ hpc = "done"
    /\ unique_key = "url"
    /\ Len(input_records) = 3
    /\ unique.duplicates = 1
    /\ Len(unique.unique_records) = 2
    /\ unique.unique_records[2] = input_records[3]
    /\ \E e \in Entries(input_records[2]) : e.k = unique_key
    /\ input_records[1] # input_records[2]
    /\ ~(\E e \in Entries(input_records[3]) : e.k = unique_key)

\* C34 as stated: percentage is scraped / target * 100 (0 when target is 0).
\* percentage is held in tenths of a percent.
C34_PercentageExact ==
    hpc = "done" =>
        /\ compared.is_complete <=> scraped_pages >= target_pages
        /\ compared.pages_remaining = Max(0, target_pages - scraped_pages)
        /\ target_pages = 0 => compared.percentage = 0
        /\ target_pages > 0 =>
               compared.percentage * target_pages = scraped_pages * 1000

\* C34: compare_pages returns is_complete exactly when scraped >= target,
\* pages_remaining = max(0, target - scraped), and as percentage
\* scraped / target * 100 rounded to one decimal (the nearest tenth), 0 when
\* target is 0.
C34_ComparePages ==
    hpc = "done" =>
        /\ compared.is_complete <=> scraped_pages >= target_pages
        /\ compared.pages_remaining = Max(0, target_pages - scraped_pages)
        /\ target_pages = 0 => compared.percentage = 0
        /\ target_pages > 0 =>
               /\ 2 * (compared.percentage * target_pages - scraped_pages * 1000)
                      <= target_pages
               /\ 2 * (scraped_pages * 1000 - compared.percentage * target_pages)
                      <= target_pages

C34_Witness ==
    /\ hpc = "done"
    /\ scraped_pages = 2 /\ target_pages = 3
    /\ compared.percentage = 667
    /\ compared.pages_remaining = 1
    /\ ~compared.is_complete

\* C35: a session that was running with pages_completed >= total_pages_target
\* when a cycle listed it is, when its turn comes in that cycle, marked
\* completed and skipped: the executor is not called for it (nothing is
\* dispatched, the loop goes on to the next listed session) and its
\* pages_completed and current_iteration are left as they were.
C35_CompleteSkipped ==
    [][\A m \in monitors :
        (mpc[m] = "loop" /\ queue[m] # <<>> /\ (queue'[m] # queue[m] \/ mpc'[m] # mpc[m])) =>
          LET row == Head(queue[m])
              s == row.session_id
          IN  (s \in atList[m] /\ row.pages_completed >= row.total_pages_target) =>
                    /\ sess'[s].status = "completed"
                    /\ sess'[s].pages = sess[s].pages
                    /\ sess'[s].iter = sess[s].iter
                    /\ \A r \in Sessions \ {s} : sess'[r] = sess[r]
                    /\ inflight' = inflight /\ lastDisp' = lastDisp
                    /\ mpc'[m] = "loop" /\ cur'[m] = NoCall
                    /\ queue'[m] = Tail(queue[m])]_vars

\* The second loop listed session 1 after the first loop's last iteration
\* had brought it to 25 of 25 pages and before the first loop marked it; the
\* second loop's check has marked it completed without an executor call.
C35_Witness ==
    /\ mpc[1] = "mark" /\ cur[1].sid = 1 /\ cur[1].end = 25
    /\ okRanges[1] = ScenarioRanges
    /\ mpc[2] = "loop" /\ queue[2] = <<>> /\ 1 \in atList[2]
    /\ sess[1].status = "completed" /\ sess[1].pages = 25 /\ sess[1].total = 25
    /\ inflight[1] = 0

\* C36: a poll of monitor_run_realtime that gets a status ends the loop
\* exactly when the status it observes is succeeded, failed or cancelled, so
\* the loop ends at the first poll that observes such a status and never
\* while the observed status is another one; the poll that ends the loop
\* leaves that status stored for the monitoring session of the loop; once
\* the loop has ended it sends no status request, counts no poll and stores
\* no record.
C36_EndsAtFirstTerminalPoll ==
    [][/\ (rpc = "polling" /\ rpc' \in {"poll_wait", "done"}) =>
             /\ rpc' = "done" <=> run.status \in {"succeeded", "failed", "cancelled"}
             /\ rpc' = "done" => /\ msess'[loopSid].status = run.status
                                 /\ msess'[loopSid].total_pages = run.pages_crawled
       /\ (rpc # "done" /\ rpc' = "done") =>
             rpc = "polling" /\ run.status \in {"succeeded", "failed", "cancelled"}
       /\ rpc = "done" =>
             /\ rpc' = "done"
             /\ requests' = requests /\ poll_count' = poll_count
             /\ stored' = stored
             /\ msess'[loopSid] # msess[loopSid] =>
                    msess'[loopSid] = [msess[loopSid] EXCEPT !.status = "cancelled"]]_vars

\* The loop has ended on its third poll, the first to observe the status
\* failed, after two polls that observed running.
C36_Witness ==
    /\ rpc = "done"
    /\ poll_count = 3 /\ requests = 3
    /\ run.status = "failed" /\ run.pages_crawled = 2
    /\ msess[loopSid].status = "failed"
    /\ msess[loopSid].total_pages = 2

\* C37: the registry loses no registration under concurrency: once the
\* save_session_url calls of the sessions have all returned True, the URL of
\* every one of them is what _get_original_url finds for it in the file.
C37_NoLostRegistration ==
    (\A s \in Sessions : regPc[s] = "done") =>
        \A s \in Sessions : get_original_url(regFile, s) = regUrl[s]

\* C38: for a URL that has one of the components page=N, p=N, /page/N,
\* /page-N, offset=N, generate_next_page_url(url, c) of the pagination
\* service returns what generate_next_url(url, c + 1) of the URL generator
\* returns.
HasPageComponent(u) == \E k \in 1..Len(PagePatterns) : Search(PagePatterns[k], u) # 0

C38_SameNextUrl ==
    (upc \in {"generated", "redetected"} /\ nextPageUrl # <<>> /\ HasPageComponent(url)) =>
        ~nextUrl.raised /\ nextUrl.url = nextPageUrl

\* C39: generate_next_url changes nothing but the number of the matched
\* component: for a URL in which detect_pattern found a component, the URL
\* returned has the tokens of the URL given, in the same places, except
\* runs of digits; separators (the '/' of '/page/3'), words and their letter
\* case are as they were.
C39_OnlyNumberChanges ==
    (/\ upc \in {"generated", "redetected"}
     /\ ~nextUrl.raised
     /\ info.pattern_type # "unknown") =>
        /\ Len(nextUrl.url) = Len(url)
        /\ \A j \in 1..Len(url) :
              nextUrl.url[j] # url[j] => IsNum(url[j]) /\ IsNum(nextUrl.url[j])

\* C40: starting monitoring creates exactly one monitoring session: the
\* session whose id the start endpoint returns is the one the polling loop
\* updates, and every record stored for the run is stored under that id.
C40_OneMonitoringSession ==
    rpc # "off" =>
        /\ loopSid = apiSid
        /\ Cardinality({i \in MonIds : msess[i].status # "none"}) = 1
        /\ \A e \in stored : e.session_id = apiSid

====
